---- MODULE Spec2Model ----
(***************************************************************************)
(* A state-machine model of ggj22-kiwi: the tile grid (level.rs), the      *)
(* geometry helpers (vecmath.rs), the puzzle simulation, the level editor  *)
(* and the level sequencer (game.rs) and the widget run loop (ui.rs).      *)
(*                                                                         *)
(* Rust values are modelled as follows.                                    *)
(*   V2          [x, y]                                                    *)
(*   Rectangle   [pos, size]                                               *)
(*   Cell        [letter, background, foreground]; a char is a string,     *)
(*               '\0' is NUL                                               *)
(*   Level       [width, height, p0, triggers, data]; data is the          *)
(*               Vec<Vec<Cell>> as a sequence of rows, so the cell         *)
(*               data[y][x] of the source is data[y + 1][x + 1] here       *)
(*   Option<UiEvent>  [some, id, kind, value]; None is NoEvent             *)
(*                                                                         *)
(* Where the result of a call is used several times it is bound once, as   *)
(* the element of a singleton set: CHOOSE v \in {F(x) : x \in {call}} : TRUE *)
(* is F(call).                                                             *)
(***************************************************************************)
EXTENDS Integers, Sequences, FiniteSets, TLC

VARIABLES
    level,      \* a Level object on its own (level.rs)
    runner,     \* a LevelRunner used as the root widget (game.rs)
    editor,     \* a LevelEditor, with its embedded test_runer (game.rs)
    mlr,        \* a MultiLevelRunner, with its embedded level_runner (game.rs)
    widget,     \* some other implementor of UiWidget used as the root: its
                \* id and the events its input and its update return (ui.rs)
    term,       \* the environment: the terminal's size, the level files,
                \* what the file system does with a write (disk),
                \* the message shown after the alternate screen is left,
                \* whether a key was read since, and how many more events
                \* the user sends (input; -1 when that is not limited)
    ui,         \* UiContext and the locals of UiContext::run (ui.rs)
    last        \* the operation performed last: its inputs, the state it
                \* started from and the event it returned

vars == <<level, runner, editor, mlr, widget, term, ui, last>>

(***************************************************************************)
(* Bounds of the model.                                                    *)
(***************************************************************************)
MaxSide == 2        \* SpecLevel: grids of 1..MaxSide by 1..MaxSide cells
MaxLen == 3         \* simulation specs: strips of 1..MaxLen cells
MaxTriggers == 2    \* SpecTrigger: levels with 0..MaxTriggers triggers
MaxFiles == 2       \* SpecSeq: level lists of 0..MaxFiles paths
MaxInputs == 4      \* SpecEdit: the user sends up to MaxInputs events
MaxWidgets == 4     \* SpecIds: up to MaxWidgets widgets are constructed
MaxBatch == 2       \* SpecRun: the user sends up to MaxBatch events

(***************************************************************************)
(* vecmath.rs                                                              *)
(***************************************************************************)
V2_make(x, y) == [x |-> x, y |-> y]

V2_new == V2_make(0, 0)

V2_add_twice(a, b) == [x |-> a.x + 2 * b.x, y |-> a.y + 2 * b.y]

V2_add(a, b) == [x |-> a.x + b.x, y |-> a.y + b.y]

V2_sub(a, b) == [x |-> a.x - b.x, y |-> a.y - b.y]

Rectangle_make(pos, size) == [pos |-> pos, size |-> size]

Rectangle_left(r) == r.pos.x

Rectangle_right_one_past(r) == r.pos.x + r.size.x

Rectangle_right(r) == r.pos.x + r.size.x - 1

Rectangle_top(r) == r.pos.y

Rectangle_bottom(r) == r.pos.y + r.size.y - 1

Rectangle_bottom_right(r) == V2_add(V2_add(r.pos, r.size), V2_make(-1, -1))

Rectangle_grow(r, size) ==
    [pos  |-> V2_sub(r.pos, V2_make(size, size)),
     size |-> V2_add(r.size, V2_make(2 * size, 2 * size))]

Rectangle_contains_open(r, pos) ==
    /\ pos.x >= Rectangle_left(r)
    /\ pos.x < Rectangle_right(r)
    /\ pos.y >= Rectangle_top(r)
    /\ pos.y < Rectangle_bottom(r)

Rectangle_contains(r, pos) ==
    /\ pos.x >= Rectangle_left(r)
    /\ pos.x <= Rectangle_right(r)
    /\ pos.y >= Rectangle_top(r)
    /\ pos.y <= Rectangle_bottom(r)

Rectangle_normalized_keeps_size(r) ==
    [r EXCEPT !.pos.x = IF r.size.x <= 0 THEN Rectangle_right(r) ELSE @,
              !.pos.y = IF r.size.y <= 0 THEN Rectangle_bottom(r) ELSE @]

Rectangle_normalized(r) ==
    IF r.size.x > 0 /\ r.size.y > 0
    THEN r
    ELSE LET rx == IF r.size.x <= 0
                   THEN [r EXCEPT !.pos.x = Rectangle_right(r),
                                  !.size.x = Rectangle_left(r) - Rectangle_right(r) + 1]
                   ELSE r
         IN  IF rx.size.y <= 0
             THEN [rx EXCEPT !.pos.y = Rectangle_bottom(rx),
                             !.size.y = Rectangle_top(rx) - Rectangle_bottom(rx) + 1]
             ELSE rx

(***************************************************************************)
(* level.rs                                                                *)
(***************************************************************************)
CellColor == {"White", "Black", "LightGray", "DarkGray"}

NUL == "NUL"

Cell_empty_any_glyph(c) == c.letter = c.letter

Cell_empty(c) == c.letter = NUL \/ c.letter = " "

EMPTY_CELL == [letter |-> NUL, background |-> "Black", foreground |-> "White"]

Cell_make_empty == EMPTY_CELL

Trigger_make(pos, id) == [pos |-> pos, id |-> id]

Level_new(width, height) ==
    [width    |-> width,
     height   |-> height,
     p0       |-> V2_make(2, 2),
     triggers |-> <<>>,
     data     |-> [y \in 1..height |-> [x \in 1..width |-> Cell_make_empty]]]

Level_size(l) == V2_make(l.width, l.height)

Level_contains(l, pos) ==
    pos.x >= 0 /\ pos.x < l.width /\ pos.y >= 0 /\ pos.y < l.height

Level_set_default_colours(l, pos, value) ==
    IF Level_contains(l, pos)
    THEN [l EXCEPT !.data[pos.y + 1][pos.x + 1] =
             [value EXCEPT !.background = "Black", !.foreground = "White"]]
    ELSE l

Level_set_transposed(l, pos, value) ==
    IF Level_contains(l, pos)
    THEN [l EXCEPT !.data[pos.x + 1][pos.y + 1] = value]
    ELSE l

Level_set(l, pos, value) ==
    IF Level_contains(l, pos)
    THEN [l EXCEPT !.data[pos.y + 1][pos.x + 1] = value]
    ELSE l

Level_bounds_grown(l) ==
    Rectangle_make(V2_make(-1, -1), V2_add(Level_size(l), V2_make(2, 2)))

Level_bounds(l) == Rectangle_make(V2_make(0, 0), Level_size(l))

Level_index(l, idx) ==
    IF Level_contains(l, idx)
    THEN l.data[idx.y + 1][idx.x + 1]
    ELSE EMPTY_CELL

(***************************************************************************)
(* ui.rs: events                                                           *)
(***************************************************************************)
\* crossterm's Event, as far as the widgets match on it.
KeyEvent(code, modifiers) ==
    [type |-> "Key", code |-> code, modifiers |-> modifiers, column |-> 0, row |-> 0]

MouseDownLeft(column, row) ==
    [type |-> "Mouse", code |-> "DownLeft", modifiers |-> "NONE",
     column |-> column, row |-> row]

IsKey_any_modifiers(e, code, modifiers) == e.type = "Key" /\ e.code = code

IsKey(e, code, modifiers) ==
    e.type = "Key" /\ e.code = code /\ e.modifiers = modifiers

\* Option<UiEvent>::None
NoEvent == [some |-> FALSE, id |-> 0, kind |-> "None", value |-> ""]

\* UiWidget::event: Some(UiEvent { id: self.get_id(), e })
UiWidget_event(id, kind, value) ==
    [some |-> TRUE, id |-> id, kind |-> kind, value |-> value]

(***************************************************************************)
(* game.rs: LevelRunner                                                    *)
(***************************************************************************)
RUNNER_PADDING == 5

is_base_color_black_only(c) == c = "Black"

is_base_color_any(c) == c \in {"Black", "White", "LightGray", "DarkGray"}

is_base_color_white_only(c) == c = "White"

is_base_color(c) == c = "Black" \/ c = "White"

\* buffer_size() reads the terminal's size; size is <<columns, rows>>.
V2_from(size) == V2_make(size[1], size[2])

UiContext_next_id_stuck(id_counter) == [id |-> id_counter, id_counter |-> id_counter]

\* ui.rs, UiContext::next_id: the id returned and the counter it leaves.
UiContext_next_id(id_counter) == [id |-> id_counter, id_counter |-> id_counter + 1]

\* The constructors take the context's id_counter (ids) and draw their ids
\* from it in the order of the fields of the struct expression.
LevelRunner_new(ids) ==
    [id           |-> UiContext_next_id(ids).id,
     level        |-> Level_new(10, 10),
     backup_level |-> Level_new(10, 10),
     pos          |-> V2_make(2, 2),
     view_corner  |-> V2_make(0, 0),
     need_refresh |-> TRUE]

LevelRunner_get_view_rect(r, size) == Rectangle_make(r.view_corner, V2_from(size))

LevelRunner_start(r) ==
    [r EXCEPT !.pos = r.level.p0, !.backup_level = r.level]

LevelRunner_restart_keeps_grid(r) == LevelRunner_start(r)

LevelRunner_restart(r) ==
    LevelRunner_start([r EXCEPT !.level = r.backup_level])

\* Returns the runner and the bool the method returns.
LevelRunner_keep_cursor_in_view(r, bsize) ==
    LET view == Rectangle_grow(LevelRunner_get_view_rect(r, bsize), -RUNNER_PADDING)
        size == V2_from(bsize)
        pos  == r.pos
        x1   == IF pos.x < Rectangle_left(view) THEN pos.x - RUNNER_PADDING
                ELSE r.view_corner.x
        x2   == IF pos.x > Rectangle_right(view) THEN pos.x + RUNNER_PADDING - size.x
                ELSE x1
        y1   == IF pos.y < Rectangle_top(view) THEN pos.y - RUNNER_PADDING
                ELSE r.view_corner.y
        y2   == IF pos.y > Rectangle_bottom(view) THEN pos.y + RUNNER_PADDING - size.y
                ELSE y1
    IN  IF Rectangle_contains(view, pos)
        THEN [runner |-> r, moved |-> FALSE]
        ELSE [runner |-> [r EXCEPT !.view_corner = V2_make(x2, y2)],
              moved  |-> \/ pos.x < Rectangle_left(view)
                         \/ pos.x > Rectangle_right(view)
                         \/ pos.y < Rectangle_top(view)
                         \/ pos.y > Rectangle_bottom(view)]

LevelRunner_walk(r, dir) ==
    LET target      == V2_add(r.pos, dir)
        bounds      == Level_bounds(r.level)
        here        == Level_index(r.level, r.pos)
        target_cell == Level_index(r.level, target)
        next_cell   == Level_index(r.level, V2_add(target, dir))
    IN  IF ~Rectangle_contains(bounds, target) THEN r
        ELSE IF target_cell.background = here.background
        THEN IF Cell_empty(target_cell)
             THEN [r EXCEPT !.pos = target]
             ELSE IF /\ is_base_color(target_cell.foreground)
                     /\ Rectangle_contains(bounds, V2_add(target, dir))
                     /\ next_cell.background = target_cell.background
                     /\ Cell_empty(next_cell)
             THEN \* basic push
                  [r EXCEPT !.level = Level_set(
                                Level_set(r.level, target,
                                          [target_cell EXCEPT !.letter = " "]),
                                V2_add(target, dir),
                                [next_cell EXCEPT !.letter = target_cell.letter]),
                            !.pos = target]
             ELSE IF /\ is_base_color(target_cell.foreground)
                     /\ Rectangle_contains(bounds, V2_add(target, dir))
                     /\ next_cell.background /= target_cell.background
                     /\ next_cell.letter = target_cell.letter
             THEN \* both glyphs cancel
                  [r EXCEPT !.level = Level_set(
                                Level_set(r.level, target,
                                          [target_cell EXCEPT !.letter = " "]),
                                V2_add(target, dir),
                                [next_cell EXCEPT !.letter = " "]),
                            !.pos = target]
             ELSE IF target_cell.foreground = "LightGray"
             THEN [r EXCEPT !.pos = target]
             ELSE r
        ELSE IF /\ is_base_color(here.background)
                /\ is_base_color(target_cell.background)
                /\ target_cell.letter = "@"
             THEN [r EXCEPT !.level = Level_set(
                                Level_set(r.level, r.pos, [here EXCEPT !.letter = "@"]),
                                target,
                                [target_cell EXCEPT !.letter = " "]),
                            !.pos = target]
             ELSE r

LevelRunner_move_with_ui(r, dir, bsize) ==
    CHOOSE v \in {[LevelRunner_keep_cursor_in_view(walked, bsize).runner
                      EXCEPT !.need_refresh = TRUE]
                  : walked \in {LevelRunner_walk(r, dir)}} : TRUE

TriggersAt_same_column(l, pos) == SelectSeq(l.triggers, LAMBDA t : t.pos.x = pos.x)

\* The triggers at pos, in the order of the list; find() takes the first.
TriggersAt(l, pos) == SelectSeq(l.triggers, LAMBDA t : t.pos = pos)

LevelRunner_get_trigger_here(r, pos) == TriggersAt(r.level, pos)

\* Returns the runner and the Option<UiEvent> the method returns.
LevelRunner_input(r, e, bsize) ==
    LET moved(dir) == [runner |-> LevelRunner_move_with_ui(r, dir, bsize),
                       ret    |-> UiWidget_event(r.id, "Changed", "")]
    IN  IF IsKey(e, "w", "NONE") \/ IsKey(e, "Up", "NONE")
        THEN moved(V2_make(0, -1))
        ELSE IF IsKey(e, "s", "NONE") \/ IsKey(e, "Down", "NONE")
        THEN moved(V2_make(0, 1))
        ELSE IF IsKey(e, "a", "NONE") \/ IsKey(e, "Left", "NONE")
        THEN moved(V2_make(-1, 0))
        ELSE IF IsKey(e, "d", "NONE") \/ IsKey(e, "Right", "NONE")
        THEN moved(V2_make(1, 0))
        ELSE IF IsKey(e, "r", "NONE")
        THEN [runner |-> LevelRunner_restart(r),
              ret    |-> UiWidget_event(r.id, "Changed", "")]
        ELSE [runner |-> r, ret |-> NoEvent]

\* The direction LevelRunner::input walks in on a movement key.
KeyDir(e) ==
    CASE e.code \in {"w", "Up"}    -> V2_make(0, -1)
      [] e.code \in {"s", "Down"}  -> V2_make(0, 1)
      [] e.code \in {"a", "Left"}  -> V2_make(-1, 0)
      [] e.code \in {"d", "Right"} -> V2_make(1, 0)

IsMoveKey(e) ==
    /\ e.type = "Key" /\ e.modifiers = "NONE"
    /\ e.code \in {"w", "Up", "s", "Down", "a", "Left", "d", "Right"}

LevelRunner_update(r, bsize) ==
    LET here == LevelRunner_get_trigger_here(r, r.pos)
        kept == LevelRunner_keep_cursor_in_view(r, bsize)
    IN  IF here /= <<>> /\ here[1].id = "exit0"
        THEN [runner |-> r, ret |-> UiWidget_event(r.id, "Ok", "")]
        ELSE IF here /= <<>> /\ here[1].id \in {"exit1", "exit2"}
        THEN [runner |-> r, ret |-> UiWidget_event(r.id, "Result", here[1].id)]
        ELSE IF kept.moved
        THEN [runner |-> [kept.runner EXCEPT !.need_refresh = TRUE],
              ret    |-> UiWidget_event(r.id, "Changed", "")]
        ELSE [runner |-> kept.runner, ret |-> NoEvent]

\* UiWidget::print of the runner: the runner it leaves, and whether the pass
\* cleared the screen and drew the level.
LevelRunner_print(r) == [runner |-> r, repaints |-> r.need_refresh]

(***************************************************************************)
(* game.rs: MultiLevelRunner.  levels.files is the list of paths; the      *)
(* file behind a path is a readable level ([kind |-> "level", level]), is  *)
(* absent ("missing") or does not parse ("malformed").                     *)
(***************************************************************************)
\* ids is the UiContext's id_counter when the constructor runs.
MultiLevelRunner_new(ids, files) ==
    [id            |-> UiContext_next_id(ids).id,
     levels        |-> [files |-> files],
     current_level |-> 0,
     level_runner  |-> LevelRunner_new(UiContext_next_id(ids).id_counter),
     can_exit      |-> 0,
     need_refresh  |-> TRUE,
     message       |-> ""]

MultiLevelRunner_running(m) == m.current_level < Len(m.levels.files)

\* Returns the sequencer and the io::Result<Level> (ok, level).
MultiLevelRunner_load_level(m, path, files) ==
    IF path \notin DOMAIN files \/ files[path].kind = "missing"
    THEN [mlr |-> m, ok |-> FALSE, level |-> Level_new(0, 0)]
    ELSE IF files[path].kind = "level"
    THEN [mlr |-> m, ok |-> TRUE, level |-> files[path].level]
    ELSE [mlr   |-> [m EXCEPT !.message = "Failed to load level '" \o path \o "'"],
          ok    |-> FALSE,
          level |-> Level_new(0, 0)]

MultiLevelRunner_start_next_level_stays(m, files) ==
    IF m.current_level < Len(m.levels.files)
    THEN IF MultiLevelRunner_load_level(m, m.levels.files[m.current_level + 1], files).ok
         THEN [m EXCEPT !.level_runner =
                   LevelRunner_start(
                       [@ EXCEPT !.level =
                            MultiLevelRunner_load_level(
                                m, m.levels.files[m.current_level + 1], files).level])]
         ELSE [m EXCEPT !.message = "Failed to load level"]
    ELSE [m EXCEPT !.message = "Thank you for playing the game"]

MultiLevelRunner_start_next_level(m, files) ==
    IF m.current_level < Len(m.levels.files)
    THEN LET loaded == MultiLevelRunner_load_level(
                           m, m.levels.files[m.current_level + 1], files)
         IN  IF loaded.ok
             THEN [loaded.mlr EXCEPT !.level_runner =
                       LevelRunner_start([@ EXCEPT !.level = loaded.level])]
             ELSE [loaded.mlr EXCEPT
                       !.message = IF @ = "" THEN "Failed to load level" ELSE @,
                       !.current_level = Len(m.levels.files)]
    ELSE [m EXCEPT !.message = "Thank you for playing the game"]

MultiLevelRunner_handle_level_runner_events_forwards(m, ev, files) ==
    IF ev.some /\ ev.kind \in {"Ok", "Canceled", "Result"} /\ ev.id = m.level_runner.id
    THEN [mlr |-> MultiLevelRunner_start_next_level(
                      [m EXCEPT !.current_level = @ + 1], files),
          ret |-> ev]
    ELSE IF ~ev.some
    THEN [mlr |-> m, ret |-> NoEvent]
    ELSE [mlr |-> m, ret |-> UiWidget_event(m.id, "Changed", "")]

MultiLevelRunner_handle_level_runner_events_any_id(m, ev, files) ==
    IF ev.some
    THEN [mlr |-> MultiLevelRunner_start_next_level(
                      [m EXCEPT !.current_level = @ + 1], files),
          ret |-> UiWidget_event(m.id, "Changed", "")]
    ELSE [mlr |-> m, ret |-> NoEvent]

MultiLevelRunner_handle_level_runner_events_ok_only(m, ev, files) ==
    IF ev.some /\ ev.kind \in {"Ok", "Canceled"} /\ ev.id = m.level_runner.id
    THEN [mlr |-> MultiLevelRunner_start_next_level(
                      [m EXCEPT !.current_level = @ + 1], files),
          ret |-> UiWidget_event(m.id, "Changed", "")]
    ELSE IF ~ev.some
    THEN [mlr |-> m, ret |-> NoEvent]
    ELSE [mlr |-> m, ret |-> UiWidget_event(m.id, "Changed", "")]

\* Returns the sequencer and the Option<UiEvent> the method returns.
MultiLevelRunner_handle_level_runner_events(m, ev, files) ==
    LET next == [mlr |-> MultiLevelRunner_start_next_level(
                             [m EXCEPT !.current_level = @ + 1], files),
                 ret |-> UiWidget_event(m.id, "Changed", "")]
    IN  IF ev.some /\ ev.kind \in {"Ok", "Canceled"} /\ ev.id = m.level_runner.id
        THEN next
        ELSE IF ev.some /\ ev.kind = "Result" /\ ev.id = m.level_runner.id
        THEN next
        ELSE IF ~ev.some
        THEN [mlr |-> m, ret |-> NoEvent]
        ELSE [mlr |-> m, ret |-> UiWidget_event(m.id, "Changed", "")]

\* Returns the sequencer and the terminal.
MultiLevelRunner_print(m, t) ==
    IF ~MultiLevelRunner_running(m) /\ m.message /= ""
    THEN [mlr  |-> [m EXCEPT !.can_exit = 1, !.message = ""],
          term |-> [t EXCEPT !.message = m.message, !.typed = FALSE]]
    ELSE [mlr |-> m, term |-> t]

MultiLevelRunner_input(m, e, t) ==
    IF MultiLevelRunner_running(m)
    THEN CHOOSE v \in {MultiLevelRunner_handle_level_runner_events(
                           [m EXCEPT !.level_runner = res.runner], res.ret, t.files)
                       : res \in {LevelRunner_input(m.level_runner, e, t.size)}} : TRUE
    ELSE IF e.type = "Key" /\ e.modifiers = "NONE"
    THEN [mlr |-> [m EXCEPT !.can_exit = IF @ < 1 THEN 1 ELSE @],
          ret |-> UiWidget_event(m.id, "Changed", "")]
    ELSE [mlr |-> m, ret |-> NoEvent]

MultiLevelRunner_resize(m) ==
    IF MultiLevelRunner_running(m)
    THEN [m EXCEPT !.level_runner.need_refresh = TRUE]
    ELSE m

MultiLevelRunner_update(m, t) ==
    IF MultiLevelRunner_running(m)
    THEN CHOOSE v \in {MultiLevelRunner_handle_level_runner_events(
                           [m EXCEPT !.level_runner = res.runner], res.ret, t.files)
                       : res \in {LevelRunner_update(m.level_runner, t.size)}} : TRUE
    ELSE IF m.can_exit = 2 \/ m.message = ""
    THEN [mlr |-> m, ret |-> UiWidget_event(m.id, "Ok", "")]
    ELSE IF m.can_exit = 1
    THEN [mlr |-> [m EXCEPT !.can_exit = 2], ret |-> NoEvent]
    ELSE [mlr |-> m, ret |-> NoEvent]

(***************************************************************************)
(* game.rs: LevelEditor.  EditorMode and PaintMode values are strings; a   *)
(* key code is the character of KeyCode::Char or the name of another       *)
(* KeyCode.  path is the Option's content, "" for None.                    *)
(***************************************************************************)
invert_color(c) ==
    CASE c = "Black" -> "White"
      [] c = "White" -> "Black"
      [] OTHER       -> c

NamedKeys ==
    {"Up", "Down", "Left", "Right", "Esc", "Enter", "Backspace",
     "F2", "F3", "F4", "F5", "F6", "F8", "F9", "none"}

LevelEditor_fill_level(l) ==
    [l EXCEPT !.data =
        [y \in 1..l.height |-> [x \in 1..l.width |->
            [Cell_make_empty EXCEPT !.background = "Black", !.foreground = "White"]]]]

LevelEditor_new(ids) ==
    [id             |-> UiContext_next_id(ids).id,
     level          |-> LevelEditor_fill_level(Level_new(250, 250)),
     cursor_pos     |-> V2_new,
     view_corner    |-> V2_new,
     wrap_pos       |-> V2_new,
     need_refresh   |-> TRUE,
     mode           |-> "View",
     path           |-> "",
     paintMode      |-> "WhiteBackgroundNormal",
     test_runer     |-> LevelRunner_new(UiContext_next_id(ids).id_counter),
     show_triggers  |-> TRUE,
     selection_rect |-> Rectangle_make(V2_make(0, 0), V2_make(1, 1)),
     selecting_rect |-> FALSE]

\* The path is a file that parses; the other outcomes return no editor.
LevelEditor_new_from_path(ids, path, files) ==
    [LevelEditor_new(ids) EXCEPT !.path = path, !.level = files[path].level]

\* t.disk is what the file system does with a write: "ok", "create_fails"
\* (File::create returns an error) or "write_fails" (the file is created,
\* truncated, and to_writer returns an error).
LevelEditor_save(ed, t) ==
    IF ed.path = "" \/ t.disk = "create_fails"
    THEN [ok |-> FALSE, files |-> t.files]
    ELSE [ok    |-> t.disk = "ok",
          files |-> [p \in DOMAIN t.files \cup {ed.path} |->
                        IF p /= ed.path THEN t.files[p]
                        ELSE IF t.disk = "ok" THEN [kind |-> "level", level |-> ed.level]
                        ELSE [kind |-> "malformed"]]]

LevelEditor_resize_new_rows_only(ed, size) ==
    IF size.x < 5 \/ size.y < 5
    THEN ed
    ELSE [ed EXCEPT
             !.level.data =
                 [y \in 1..size.y |->
                     IF y <= Len(ed.level.data)
                     THEN ed.level.data[y]
                     ELSE [x \in 1..size.x |-> Cell_make_empty]],
             !.level.width = size.x,
             !.level.height = size.y]

LevelEditor_resize(ed, size) ==
    IF size.x < 5 \/ size.y < 5
    THEN ed
    ELSE [ed EXCEPT
             !.level.data =
                 [y \in 1..size.y |-> [x \in 1..size.x |->
                     IF y <= Len(ed.level.data) /\ x <= Len(ed.level.data[y])
                     THEN ed.level.data[y][x]
                     ELSE Cell_make_empty]],
             !.level.width = size.x,
             !.level.height = size.y]

LevelEditor_keep_cursor_in_view(ed, bsize) ==
    LET PADDING == 2
        view == Rectangle_grow(Rectangle_make(ed.view_corner, V2_from(bsize)), -PADDING)
        size == V2_from(bsize)
        pos  == ed.cursor_pos
        x1   == IF pos.x < Rectangle_left(view) THEN pos.x - PADDING ELSE ed.view_corner.x
        x2   == IF pos.x > Rectangle_right(view) THEN pos.x + PADDING - size.x ELSE x1
        y1   == IF pos.y < Rectangle_top(view) THEN pos.y - PADDING ELSE ed.view_corner.y
        y2   == IF pos.y > Rectangle_bottom(view) THEN pos.y + PADDING - size.y ELSE y1
    IN  IF Rectangle_contains(view, pos)
        THEN ed
        ELSE [ed EXCEPT !.view_corner = V2_make(x2, y2)]

LevelEditor_start_level_test(ed, pos) ==
    [ed EXCEPT
        !.test_runer = [LevelRunner_start([@ EXCEPT !.level = ed.level])
                            EXCEPT !.pos = pos],
        !.mode = "Play"]

PaintedCell_both_channels(ed, pos) ==
    [Level_index(ed.level, pos) EXCEPT
        !.background = IF ed.paintMode \in {"TextLightGray", "BackgroundGray"}
                       THEN "LightGray" ELSE "DarkGray",
        !.foreground = IF ed.paintMode \in {"TextLightGray", "BackgroundGray"}
                       THEN "LightGray" ELSE "DarkGray"]

\* The cell paint_cell_here writes at pos.
PaintedCell(ed, pos) ==
    LET cell == Level_index(ed.level, pos)
    IN  CASE ed.paintMode = "BlackBackgroundNormal" ->
                 [cell EXCEPT !.background = "Black", !.foreground = "White"]
          [] ed.paintMode = "WhiteBackgroundNormal" ->
                 [cell EXCEPT !.background = "White", !.foreground = "Black"]
          [] ed.paintMode = "Invert" ->
                 [cell EXCEPT
                     !.background = IF is_base_color(@) THEN invert_color(@) ELSE @,
                     !.foreground = IF is_base_color(@) THEN invert_color(@) ELSE @]
          [] ed.paintMode = "TextLightGray" -> [cell EXCEPT !.foreground = "LightGray"]
          [] ed.paintMode = "TextDarkGray" -> [cell EXCEPT !.foreground = "DarkGray"]
          [] ed.paintMode = "BackgroundGray" -> [cell EXCEPT !.background = "LightGray"]
          [] ed.paintMode = "BackgroundDarkGray" -> [cell EXCEPT !.background = "DarkGray"]

LevelEditor_paint_cell_here(ed, pos) ==
    [ed EXCEPT !.level = Level_set(ed.level, pos, PaintedCell(ed, pos))]

LevelEditor_move_and_paint(ed, dir) ==
    LevelEditor_paint_cell_here([ed EXCEPT !.cursor_pos = V2_add(@, dir)],
                                V2_add(ed.cursor_pos, dir))

LevelEditor_handle_test_play_pass_through(ed, ev) == [editor |-> ed, ret |-> ev]

LevelEditor_handle_test_play_write_back(ed, ev) ==
    IF ev.some /\ ev.kind \in {"Canceled", "Ok", "Result"}
    THEN [editor |-> [ed EXCEPT !.mode = "View", !.level = ed.test_runer.level],
          ret    |-> UiWidget_event(ed.id, "Changed", "")]
    ELSE [editor |-> ed, ret |-> ev]

LevelEditor_handle_test_play_any_event(ed, ev) ==
    IF ev.some
    THEN [editor |-> [ed EXCEPT !.mode = "View"],
          ret    |-> UiWidget_event(ed.id, "Changed", "")]
    ELSE [editor |-> ed, ret |-> ev]

\* Returns the editor and the Option<UiEvent> the method returns.
LevelEditor_handle_test_play(ed, ev) ==
    IF ev.some /\ ev.kind \in {"Canceled", "Ok", "Result"}
    THEN [editor |-> [ed EXCEPT !.mode = "View"],
          ret    |-> UiWidget_event(ed.id, "Changed", "")]
    ELSE [editor |-> ed, ret |-> ev]

LevelEditor_copy_rect_from_origin(ed, rec, target) ==
    [ed EXCEPT !.level.data =
        [y \in 1..ed.level.height |-> [x \in 1..ed.level.width |->
            IF Rectangle_contains(rec, V2_add(V2_sub(V2_make(x - 1, y - 1), target), rec.pos))
            THEN Level_index(ed.level, V2_sub(V2_make(x - 1, y - 1), target))
            ELSE ed.level.data[y][x]]]]

\* The loops over the rectangle read the clone and write each target cell
\* once, so the result is given cell by cell: source is the cell of rec that
\* lands on the position p.
LevelEditor_copy_rect(ed, rec, target) ==
    LET source(p) == V2_add(V2_sub(p, target), rec.pos)
    IN  [ed EXCEPT !.level.data =
            [y \in 1..ed.level.height |-> [x \in 1..ed.level.width |->
                IF Rectangle_contains(rec, source(V2_make(x - 1, y - 1)))
                THEN Level_index(ed.level, source(V2_make(x - 1, y - 1)))
                ELSE ed.level.data[y][x]]]]

LevelEditor_move_rect(ed, rec, target) ==
    LET source(p) == V2_add(V2_sub(p, target), rec.pos)
    IN  [ed EXCEPT !.level.data =
            [y \in 1..ed.level.height |-> [x \in 1..ed.level.width |->
                IF Rectangle_contains(rec, source(V2_make(x - 1, y - 1)))
                THEN Level_index(ed.level, source(V2_make(x - 1, y - 1)))
                ELSE IF Rectangle_contains(rec, V2_make(x - 1, y - 1))
                THEN [PaintedCell(ed, V2_make(x - 1, y - 1)) EXCEPT !.letter = " "]
                ELSE ed.level.data[y][x]]]]

LevelEditor_fill_rect0(ed, rec) ==
    [ed EXCEPT !.level.data =
        [y \in 1..ed.level.height |-> [x \in 1..ed.level.width |->
            IF Rectangle_contains(rec, V2_make(x - 1, y - 1))
            THEN Level_index(ed.level, rec.pos)
            ELSE ed.level.data[y][x]]]]

letter_to_paintmode(c) ==
    CASE c = "z" -> "WhiteBackgroundNormal"
      [] c = "x" -> "BlackBackgroundNormal"
      [] c = "c" -> "Invert"
      [] c = "v" -> "TextLightGray"
      [] c = "b" -> "TextDarkGray"
      [] c = "n" -> "BackgroundGray"
      [] c = "m" -> "BackgroundDarkGray"
      [] OTHER   -> "WhiteBackgroundNormal"

MarkedTriggers_push_only(ed, id) ==
    IF id = ""
    THEN SelectSeq(ed.level.triggers, LAMBDA t : t.pos /= ed.cursor_pos)
    ELSE Append(ed.level.triggers, Trigger_make(ed.cursor_pos, id))

\* The triggers after retain(pos != cursor_pos) and, for an id, the push.
MarkedTriggers(ed, id) ==
    LET kept == SelectSeq(ed.level.triggers, LAMBDA t : t.pos /= ed.cursor_pos)
    IN  IF id = "" THEN kept ELSE Append(kept, Trigger_make(ed.cursor_pos, id))

\* The last match of input, on self.mode: the editor it leaves.  The
\* event each arm evaluates to is bound to v and dropped.
LevelEditor_input_mode(ed, e) ==
    LET key(code) == IsKey(e, code, "NONE")
        rect      == Rectangle_normalized(ed.selection_rect)
        here      == Level_index(ed.level, ed.cursor_pos)
        back      == [ed.cursor_pos EXCEPT !.x = @ - 1]
    IN  CASE ed.mode = "View" ->
                 IF key("e")
                 THEN [ed EXCEPT !.mode = "WriteText", !.wrap_pos = ed.cursor_pos]
                 ELSE IF key("R") \/ IsKey(e, "R", "SHIFT") \/ IsKey(e, "r", "SHIFT")
                 THEN LevelEditor_resize(ed, ed.cursor_pos)
                 ELSE IF key("m") /\ ~ed.selecting_rect
                 THEN [ed EXCEPT !.selecting_rect = TRUE,
                                 !.selection_rect = Rectangle_make(ed.cursor_pos, V2_make(1, 1))]
                 ELSE IF (key("Enter") \/ key("m") \/ key("Esc")) /\ ed.selecting_rect
                 THEN [ed EXCEPT !.selecting_rect = FALSE, !.selection_rect = rect]
                 ELSE IF key("k") THEN LevelEditor_copy_rect(ed, rect, ed.cursor_pos)
                 ELSE IF key("l") THEN LevelEditor_move_rect(ed, rect, ed.cursor_pos)
                 ELSE IF key("0") THEN LevelEditor_fill_rect0(ed, rect)
                 ELSE ed
          [] ed.mode = "WriteText" ->
                 IF key("Enter")
                 THEN [ed EXCEPT !.cursor_pos = V2_make(ed.wrap_pos.x, @.y + 1)]
                 ELSE IF key("Esc")
                 THEN [ed EXCEPT !.mode = "View"]
                 ELSE IF key("Backspace") \/ IsKey(e, "h", "CONTROL")
                 THEN [ed EXCEPT
                          !.cursor_pos = back,
                          !.level = Level_set(@, back,
                              [Level_index(ed.level, back) EXCEPT !.letter = NUL])]
                 ELSE IF /\ e.type = "Key" /\ e.code \notin NamedKeys
                         /\ e.modifiers \in {"NONE", "SHIFT"}
                 THEN [ed EXCEPT
                          !.level = Level_set(@, ed.cursor_pos,
                                              [here EXCEPT !.letter = e.code]),
                          !.cursor_pos.x = @ + 1]
                 ELSE ed
          [] ed.mode = "Paint" ->
                 IF key("Esc") THEN [ed EXCEPT !.mode = "View"]
                 ELSE IF key("w") THEN LevelEditor_move_and_paint(ed, V2_make(0, -1))
                 ELSE IF key("s") THEN LevelEditor_move_and_paint(ed, V2_make(0, 1))
                 ELSE IF key("a") THEN LevelEditor_move_and_paint(ed, V2_make(-1, 0))
                 ELSE IF key("d") THEN LevelEditor_move_and_paint(ed, V2_make(1, 0))
                 ELSE IF e.code \in {"z", "x", "c", "v", "b", "n", "m"} /\ key(e.code)
                 THEN [ed EXCEPT !.paintMode = letter_to_paintmode(e.code)]
                 ELSE IF key(" ") THEN LevelEditor_paint_cell_here(ed, ed.cursor_pos)
                 ELSE ed
          [] ed.mode = "SetMarkers" ->
                 IF key("Esc") THEN [ed EXCEPT !.mode = "View"]
                 ELSE IF key("z") THEN [ed EXCEPT !.level.p0 = ed.cursor_pos]
                 ELSE IF key("Backspace") \/ IsKey(e, "h", "CONTROL")
                 THEN [ed EXCEPT !.level.triggers = MarkedTriggers(ed, "")]
                 ELSE IF key("x") THEN [ed EXCEPT !.level.triggers = MarkedTriggers(ed, "exit1")]
                 ELSE IF key("c") THEN [ed EXCEPT !.level.triggers = MarkedTriggers(ed, "exit2")]
                 ELSE IF key("v") THEN [ed EXCEPT !.level.triggers = MarkedTriggers(ed, "exit0")]
                 ELSE ed
          [] OTHER -> ed

LevelEditor_input_save_propagates(ed0, e, t) ==
    IF IsKey(e, "F9", "NONE") /\ ~LevelEditor_save(ed0, t).ok
    THEN [editor |-> [ed0 EXCEPT !.need_refresh = TRUE], ret |-> NoEvent, term |-> t]
    ELSE [editor |-> [ed0 EXCEPT !.need_refresh = TRUE, !.mode = "ErrorMessage"],
          ret    |-> UiWidget_event(ed0.id, "Changed", ""),
          term   |-> [t EXCEPT !.files = LevelEditor_save(ed0, t).files,
                               !.message = "Saved!", !.typed = FALSE]]

\* Returns the editor, the Option<UiEvent> the method returns and the
\* environment (F9 writes the file and shows a message).
LevelEditor_input(ed0, e, t) ==
    LET ed        == [ed0 EXCEPT !.need_refresh = TRUE]
        key(code) == IsKey(e, code, "NONE")
        changed   == UiWidget_event(ed.id, "Changed", "")
        out(x, r) == [editor |-> x, ret |-> r, term |-> t]
        cursor(pos) ==
            out(LevelEditor_keep_cursor_in_view([ed EXCEPT !.cursor_pos = pos], t.size),
                changed)
        pan(dir)  == out([ed EXCEPT !.view_corner = V2_add(@, dir)], changed)
        handled   ==
            CHOOSE v \in {LevelEditor_handle_test_play(
                              [ed EXCEPT !.test_runer = played.runner], played.ret)
                          : played \in {LevelRunner_input(ed.test_runer, e, t.size)}} : TRUE
        saved     == LevelEditor_save(ed, t)
    IN  IF ed.mode = "ErrorMessage"
        THEN IF e.type = "Key"
             THEN out([ed EXCEPT !.mode = "View"], changed)
             ELSE out(ed, NoEvent)
        ELSE IF ed.mode = "Play"
        THEN IF key("Esc")
             THEN out([ed EXCEPT !.mode = "View"], changed)
             ELSE out(handled.editor, handled.ret)
        ELSE IF key("Up") THEN cursor(V2_add(ed.cursor_pos, V2_make(0, -1)))
        ELSE IF key("Down") THEN cursor(V2_add(ed.cursor_pos, V2_make(0, 1)))
        ELSE IF key("Left") THEN cursor(V2_add(ed.cursor_pos, V2_make(-1, 0)))
        ELSE IF key("Right") THEN cursor(V2_add(ed.cursor_pos, V2_make(1, 0)))
        ELSE IF e.type = "Mouse" /\ e.code = "DownLeft" /\ e.modifiers = "NONE"
        THEN cursor(V2_add(ed.view_corner, V2_from(<<e.column, e.row>>)))
        ELSE IF key("F2") THEN out([ed EXCEPT !.mode = "View"], changed)
        ELSE IF key("F3")
        THEN out([ed EXCEPT !.mode = "WriteText", !.wrap_pos = ed.cursor_pos], changed)
        ELSE IF key("F4") THEN out([ed EXCEPT !.wrap_pos = ed.cursor_pos], changed)
        ELSE IF key("F5") THEN out([ed EXCEPT !.mode = "Paint"], changed)
        ELSE IF key("F6") THEN out([ed EXCEPT !.mode = "SetMarkers"], changed)
        ELSE IF key("F8") THEN out(LevelEditor_start_level_test(ed, ed.level.p0), changed)
        ELSE IF IsKey(e, "F8", "SHIFT")
        THEN out(LevelEditor_start_level_test(ed, ed.cursor_pos), changed)
        ELSE IF key("F9")
        THEN [editor |-> [ed EXCEPT !.mode = "ErrorMessage"],
              ret    |-> changed,
              term   |-> [t EXCEPT !.files = saved.files,
                                   !.message = IF saved.ok THEN "Saved!"
                                               ELSE "Failed to save",
                                   !.typed = FALSE]]
        ELSE IF ed.mode \notin {"WriteText", "Paint"} /\ key("w") THEN pan(V2_make(0, -1))
        ELSE IF ed.mode \notin {"WriteText", "Paint"} /\ key("s") THEN pan(V2_make(0, 1))
        ELSE IF ed.mode \notin {"WriteText", "Paint"} /\ key("a") THEN pan(V2_make(-1, 0))
        ELSE IF ed.mode \notin {"WriteText", "Paint"} /\ key("d") THEN pan(V2_make(1, 0))
        ELSE IF ed.mode /= "WriteText" /\ key("t")
        THEN out([ed EXCEPT !.show_triggers = ~@], changed)
        ELSE out(LevelEditor_input_mode(ed, e), NoEvent)

LevelEditor_update_extent_only(ed, bsize) ==
    IF ed.mode = "View" /\ ed.selecting_rect
    THEN [editor |-> [ed EXCEPT !.selection_rect.size =
                         V2_sub(ed.cursor_pos, ed.selection_rect.pos)],
          ret    |-> NoEvent]
    ELSE [editor |-> ed,
          ret    |-> NoEvent]

LevelEditor_update_dismisses(ed, bsize) ==
    [editor |-> [ed EXCEPT !.mode = IF @ = "ErrorMessage" THEN "View" ELSE @],
     ret    |-> NoEvent]

LevelEditor_update(ed, bsize) ==
    IF ed.mode = "Play"
    THEN CHOOSE v \in {LevelEditor_handle_test_play(
                           [ed EXCEPT !.test_runer = played.runner], played.ret)
                       : played \in {LevelRunner_update(ed.test_runer, bsize)}} : TRUE
    ELSE IF /\ ed.mode = "View"
            /\ ed.selecting_rect
            /\ Rectangle_bottom_right(ed.selection_rect) /= ed.cursor_pos
    THEN [editor |-> [ed EXCEPT !.selection_rect.size =
                         V2_add(V2_sub(ed.cursor_pos, ed.selection_rect.pos),
                                V2_make(1, 1))],
          ret    |-> NoEvent]
    ELSE [editor |-> ed, ret |-> NoEvent]

\* UiWidget::print of the editor: the editor it leaves, and whether the pass
\* drew (the level, or in Play the test runner's level).
LevelEditor_print(ed) ==
    IF ed.need_refresh
    THEN CASE ed.mode = "ErrorMessage" -> [editor |-> ed, repaints |-> FALSE]
           [] ed.mode = "Play" ->
                  [editor   |-> [ed EXCEPT !.test_runer =
                                    LevelRunner_print(ed.test_runer).runner],
                   repaints |-> LevelRunner_print(ed.test_runer).repaints]
           [] OTHER -> [editor |-> ed, repaints |-> TRUE]
    ELSE [editor |-> ed, repaints |-> FALSE]

(***************************************************************************)
(* ui.rs: UiContext and its run loop.  ui holds the context's id_counter,  *)
(* which widget is the root, and the locals of UiContext::run: main_id,    *)
(* last_size, has_input, retry and the position in the function (pc):      *)
(* "main" before run is called, "start" at its entry, "poll" inside the    *)
(* wait for input, "tick" after it, "done" once run has returned.          *)
(***************************************************************************)
POLL_RETRIES_tenfold == 10 * 25

POLL_RETRIES == 25

UiContext_should_exit_any_id(main_id, event) ==
    event.some /\ event.kind \in {"Canceled", "Ok", "Result"}

UiContext_should_exit(main_id, event) ==
    /\ event.some
    /\ event.id = main_id
    /\ event.kind \in {"Canceled", "Ok", "Result"}

UiContext_create(root) ==
    [id_counter |-> 1, root |-> root, pc |-> "main", main_id |-> 0,
     last_size |-> <<0, 0>>, has_input |-> FALSE, retry |-> 0]

\* The record a root of SpecRun keeps of one iteration of the loop: the
\* calls made on it (with the event, for input) and the polls that timed
\* out, starting anew with the first entry after a print.
Called(calls, op, e) ==
    IF calls /= <<>> /\ calls[Len(calls)].op = "print"
    THEN <<[op |-> op, e |-> e]>>
    ELSE Append(calls, [op |-> op, e |-> e])

\* The widgets and what they act on, as one value.
Widgets ==
    [runner |-> runner, editor |-> editor, mlr |-> mlr, widget |-> widget,
     term |-> term]

Root_state(w, root) ==
    CASE root = "runner" -> w.runner
      [] root = "mlr"    -> w.mlr
      [] root = "editor" -> w.editor
      [] root = "widget" -> [w.widget EXCEPT !.calls = <<>>]

Root_get_id(w, root) == Root_state(w, root).id

\* widget.input(&event, self): the widgets and the returned event.
Root_input(w, root, e) ==
    CASE root = "runner" ->
             CHOOSE v \in {[w |-> [w EXCEPT !.runner = res.runner], ret |-> res.ret]
                           : res \in {LevelRunner_input(w.runner, e, w.term.size)}} : TRUE
      [] root = "mlr" ->
             CHOOSE v \in {[w |-> [w EXCEPT !.mlr = res.mlr], ret |-> res.ret]
                           : res \in {MultiLevelRunner_input(w.mlr, e, w.term)}} : TRUE
      [] root = "editor" ->
             CHOOSE v \in {[w   |-> [w EXCEPT !.editor = res.editor, !.term = res.term],
                            ret |-> res.ret]
                           : res \in {LevelEditor_input(w.editor, e, w.term)}} : TRUE
      [] root = "widget" ->
             [w   |-> [w EXCEPT !.widget.calls = Called(@, "input", e)],
              ret |-> w.widget.on_input]

\* widget.update()
Root_update(w, root) ==
    CASE root = "runner" ->
             CHOOSE v \in {[w |-> [w EXCEPT !.runner = res.runner], ret |-> res.ret]
                           : res \in {LevelRunner_update(w.runner, w.term.size)}} : TRUE
      [] root = "mlr" ->
             CHOOSE v \in {[w |-> [w EXCEPT !.mlr = res.mlr], ret |-> res.ret]
                           : res \in {MultiLevelRunner_update(w.mlr, w.term)}} : TRUE
      [] root = "editor" ->
             CHOOSE v \in {[w |-> [w EXCEPT !.editor = res.editor], ret |-> res.ret]
                           : res \in {LevelEditor_update(w.editor, w.term.size)}} : TRUE
      [] root = "widget" ->
             [w   |-> [w EXCEPT !.widget.calls = Called(@, "update", KeyEvent("none", "NONE"))],
              ret |-> w.widget.on_update]

\* widget.print(self)
Root_print(w, root) ==
    CASE root = "runner" -> [w EXCEPT !.runner = LevelRunner_print(w.runner).runner]
      [] root = "editor" -> [w EXCEPT !.editor = LevelEditor_print(w.editor).editor]
      [] root = "mlr" ->
             CHOOSE v \in {[w EXCEPT !.mlr = res.mlr, !.term = res.term]
                           : res \in {MultiLevelRunner_print(w.mlr, w.term)}} : TRUE
      [] root = "widget" ->
             [w EXCEPT !.widget.calls = Called(@, "print", KeyEvent("none", "NONE"))]

Root_resize_ignored(w, root) == w

\* widget.resize(..); a LevelRunner has the trait's resize
Root_resize(w, root) ==
    CASE root = "runner" -> [w EXCEPT !.runner.need_refresh = TRUE]
      [] root = "editor" -> [w EXCEPT !.editor.need_refresh = TRUE]
      [] root = "mlr"    -> [w EXCEPT !.mlr = MultiLevelRunner_resize(w.mlr)]
      [] root = "widget" ->
             [w EXCEPT !.widget.calls = Called(@, "resize", KeyEvent("none", "NONE"))]

Commit(w) ==
    /\ runner' = w.runner
    /\ editor' = w.editor
    /\ mlr' = w.mlr
    /\ widget' = w.widget
    /\ term' = w.term

\* The retry counter after polls that all time out with the size unchanged.
RECURSIVE RunIdle(_)
RunIdle(retry) == IF retry > 0 THEN RunIdle(retry - 1) ELSE retry

\* run, up to the loop: resize to the terminal's size and print.
RunStart ==
    /\ ui.pc = "start"
    /\ Commit(Root_print(Root_resize(Widgets, ui.root), ui.root))
    /\ ui' = [ui EXCEPT !.main_id = Root_get_id(Widgets, ui.root),
                        !.last_size = <<0, 0>>,
                        !.has_input = FALSE,
                        !.retry = POLL_RETRIES,
                        !.pc = "poll"]
    /\ last' = [op |-> "start", e |-> KeyEvent("none", "NONE"),
                before |-> Root_state(Widgets, ui.root), ret |-> NoEvent]
    /\ UNCHANGED level

\* An event is available and is read: the kill combination returns, any
\* other event is routed to the root.
RunRead(e) ==
    /\ ui.pc = "poll"
    /\ term.input /= 0
    /\ IF IsKey(e, "c", "CONTROL")
       THEN /\ ui' = [ui EXCEPT !.pc = "done"]
            /\ last' = [op |-> "kill", e |-> e,
                        before |-> Root_state(Widgets, ui.root), ret |-> NoEvent]
            /\ UNCHANGED <<runner, editor, mlr, widget, term>>
       ELSE \E res \in {Root_input(
                              [Widgets EXCEPT
                                  !.term.typed = @ \/ e.type = "Key",
                                  !.term.input = IF @ > 0 THEN @ - 1 ELSE @],
                              ui.root, e)} :
                /\ Commit(res.w)
                /\ ui' = IF UiContext_should_exit(ui.main_id, res.ret)
                         THEN [ui EXCEPT !.pc = "done"]
                         ELSE [ui EXCEPT !.has_input = TRUE]
                /\ last' = [op |-> "input", e |-> e,
                            before |-> Root_state(Widgets, ui.root), ret |-> res.ret]
    /\ UNCHANGED level

\* No (more) event is available: the size check, then the end of the wait,
\* at once after input and after all the retries without.
RunPollEnd ==
    /\ ui.pc = "poll"
    /\ IF term.size /= ui.last_size
       THEN /\ Commit(Root_resize(Widgets, ui.root))
            /\ ui' = [ui EXCEPT !.last_size = term.size, !.pc = "tick"]
       ELSE /\ UNCHANGED <<runner, editor, mlr, widget, term>>
            /\ ui' = [ui EXCEPT !.retry = IF ui.has_input THEN @ - 1 ELSE RunIdle(@),
                                !.pc = "tick"]
    /\ UNCHANGED <<level, last>>

\* One pass of the wait in which poll(100ms) times out, with the recording
\* root: the size check, then the resize and the break, or retry -= 1 and
\* the test of the wait's condition.
RunTimeout ==
    /\ ui.pc = "poll"
    /\ ~ui.has_input
    /\ ui.retry > 0
    /\ \E w \in {[Widgets EXCEPT
                      !.widget.calls = Called(@, "timeout", KeyEvent("none", "NONE"))]} :
           IF term.size /= ui.last_size
           THEN /\ Commit(Root_resize(w, ui.root))
                /\ ui' = [ui EXCEPT !.last_size = term.size, !.pc = "tick"]
           ELSE /\ Commit(w)
                /\ ui' = [ui EXCEPT !.retry = @ - 1,
                                    !.pc = IF ui.retry - 1 > 0 THEN "poll" ELSE "tick"]
    /\ UNCHANGED <<level, last>>

RunTick_without_print ==
    /\ ui.pc = "tick"
    /\ \E res \in {Root_update(Widgets, ui.root)} :
           /\ Commit(res.w)
           /\ ui' = IF UiContext_should_exit(ui.main_id, res.ret)
                    THEN [ui EXCEPT !.pc = "done"]
                    ELSE [ui EXCEPT !.has_input = FALSE, !.retry = POLL_RETRIES,
                                    !.pc = "poll"]
           /\ last' = [op |-> "update", e |-> KeyEvent("none", "NONE"),
                       before |-> Root_state(Widgets, ui.root), ret |-> res.ret]
    /\ UNCHANGED level

\* update, the exit test, print, and the start of the next wait.
RunTick ==
    /\ ui.pc = "tick"
    /\ \E res \in {Root_update(Widgets, ui.root)} :
       LET exit == UiContext_should_exit(ui.main_id, res.ret)
       IN  /\ Commit(IF exit THEN res.w ELSE Root_print(res.w, ui.root))
           /\ ui' = IF exit
                    THEN [ui EXCEPT !.pc = "done"]
                    ELSE [ui EXCEPT !.has_input = FALSE, !.retry = POLL_RETRIES,
                                    !.pc = "poll"]
           /\ last' = [op |-> "update", e |-> KeyEvent("none", "NONE"),
                       before |-> Root_state(Widgets, ui.root), ret |-> res.ret]
    /\ UNCHANGED level

(***************************************************************************)
(* Values of the variables a specification does not use.                   *)
(***************************************************************************)
IdleLevel == Level_new(0, 0)

IdleRunner == LevelRunner_new(1)

IdleTerm ==
    [size |-> <<80, 24>>, files |-> <<>>, disk |-> "ok", message |-> "",
     typed |-> FALSE, input |-> -1]

IdleLast == [op |-> "none"]

(***************************************************************************)
(* SpecLevel: a Level object under Level::set and the indexed read.        *)
(* The levels are all grids of up to MaxSide by MaxSide cells over two     *)
(* cell values; set is applied at every position of the grid and of the    *)
(* ring of positions around it.                                            *)
(***************************************************************************)
LevelPalette ==
    {EMPTY_CELL, [letter |-> "a", background |-> "White", foreground |-> "Black"]}

TestLevels ==
    UNION {{[width |-> w, height |-> h, p0 |-> V2_make(0, 0), triggers |-> <<>>,
             data |-> d] : d \in [1..h -> [1..w -> LevelPalette]]}
           : <<w, h>> \in (1..MaxSide) \X (1..MaxSide)}

\* The positions of the grid and of the ring around it.
Probes(l) == {V2_make(x, y) : <<x, y>> \in (-1..l.width) \X (-1..l.height)}

InitLevel ==
    /\ level \in TestLevels
    /\ runner = IdleRunner
    /\ editor = 0
    /\ widget = 0
    /\ mlr = 0
    /\ term = IdleTerm
    /\ ui = 0
    /\ last = IdleLast

LevelSetStep ==
    \E pos \in Probes(level), value \in LevelPalette :
        /\ level' = Level_set(level, pos, value)
        /\ last' = [op |-> "set", pos |-> pos, value |-> value, before |-> level]
        /\ UNCHANGED <<runner, editor, mlr, widget, term, ui>>

NextLevel == LevelSetStep

SpecLevel == InitLevel /\ [][NextLevel]_vars

(***************************************************************************)
(* The simulation specifications: a LevelRunner as the root widget, built  *)
(* by LevelRunner::new_with_level on a level read from a file, then driven *)
(* by input events and update ticks.  The levels are horizontal and        *)
(* vertical strips of 1..MaxLen cells.                                     *)
(***************************************************************************)
LevelRunner_new_with_level(id, l) ==
    [LevelRunner_new(id) EXCEPT !.level = l, !.backup_level = l, !.pos = l.p0]

\* The shapes of the strips, <<width, height>>.
StripShapes == ((1..MaxLen) \X {1}) \cup ({1} \X (1..MaxLen))

\* The positions of a strip.
StripCells(sh) == {V2_make(x, y) : <<x, y>> \in (0..(sh[1] - 1)) \X (0..(sh[2] - 1))}

\* The level of shape sh with the cells d, the start point p0 and the triggers t.
StripLevel(sh, d, p0, t) ==
    [width |-> sh[1], height |-> sh[2], p0 |-> p0, triggers |-> t, data |-> d]

RunnerKeys == {"w", "s", "a", "d", "Up", "Down", "Left", "Right", "r", "q"}

RunnerInputStep ==
    \E code \in RunnerKeys :
        LET e == KeyEvent(code, "NONE")
            res == LevelRunner_input(runner, e, term.size)
        IN  /\ runner' = res.runner
            /\ last' = [op |-> "input", e |-> e, before |-> runner, ret |-> res.ret]
            /\ UNCHANGED <<level, editor, mlr, widget, term, ui>>

RunnerUpdateStep ==
    LET res == LevelRunner_update(runner, term.size)
    IN  /\ runner' = res.runner
        /\ last' = [op |-> "update", e |-> KeyEvent("none", "NONE"),
                    before |-> runner, ret |-> res.ret]
        /\ UNCHANGED <<level, editor, mlr, widget, term, ui>>

NextRunner == RunnerInputStep \/ RunnerUpdateStep

(***************************************************************************)
(* SpecWalk: one input event applied to a fresh runner.  The levels vary   *)
(* in their cells: every strip over WalkPalette, which holds empty cells   *)
(* and pushable glyphs on both base backgrounds, walkable and blocking     *)
(* text and the '@' token on a base and a non-base background; the actor   *)
(* starts on any cell.                                                     *)
(***************************************************************************)
WalkPalette ==
    {EMPTY_CELL,
     [letter |-> " ", background |-> "White",     foreground |-> "Black"],
     [letter |-> "a", background |-> "Black",     foreground |-> "White"],
     [letter |-> "a", background |-> "White",     foreground |-> "Black"],
     [letter |-> "a", background |-> "Black",     foreground |-> "LightGray"],
     [letter |-> "a", background |-> "Black",     foreground |-> "DarkGray"],
     [letter |-> "@", background |-> "White",     foreground |-> "Black"],
     [letter |-> "@", background |-> "LightGray", foreground |-> "White"]}

InitWalk ==
    /\ \E sh \in StripShapes :
           \E d \in [1..sh[2] -> [1..sh[1] -> WalkPalette]], p0 \in StripCells(sh) :
               runner = LevelRunner_new_with_level(1, StripLevel(sh, d, p0, <<>>))
    /\ level = IdleLevel
    /\ editor = 0
    /\ widget = 0
    /\ mlr = 0
    /\ term = IdleTerm
    /\ ui = 0
    /\ last = IdleLast

NextWalk == last.op = "none" /\ RunnerInputStep

SpecWalk == InitWalk /\ [][NextWalk]_vars

(***************************************************************************)
(* SpecView: the simulation on strips of empty cells, which the actor      *)
(* walks freely, in a small and in a standard terminal.                    *)
(***************************************************************************)
\* The strip of shape sh with every cell empty.
PlainCells(sh) == [y \in 1..sh[2] |-> [x \in 1..sh[1] |-> EMPTY_CELL]]

TermSizes == {<<12, 12>>, <<80, 24>>}

InitView ==
    /\ \E sh \in StripShapes : \E p0 \in StripCells(sh) :
           runner = LevelRunner_new_with_level(1, StripLevel(sh, PlainCells(sh), p0, <<>>))
    /\ \E size \in TermSizes : term = [IdleTerm EXCEPT !.size = size]
    /\ level = IdleLevel
    /\ editor = 0
    /\ widget = 0
    /\ mlr = 0
    /\ ui = 0
    /\ last = IdleLast

SpecView == InitView /\ [][NextRunner]_vars

(***************************************************************************)
(* SpecTrigger: update ticks of the simulation on strips of empty cells    *)
(* that carry up to MaxTriggers triggers, the reserved identifiers and     *)
(* another one, anywhere on the strip and also several on one cell.        *)
(***************************************************************************)
TriggerIds == {"exit0", "exit1", "exit2", "door"}

TriggerLists(sh) ==
    UNION {[1..k -> {Trigger_make(p, id) : p \in StripCells(sh), id \in TriggerIds}]
           : k \in 0..MaxTriggers}

InitTrigger ==
    /\ \E sh \in StripShapes : \E p0 \in StripCells(sh), t \in TriggerLists(sh) :
           runner = LevelRunner_new_with_level(1, StripLevel(sh, PlainCells(sh), p0, t))
    /\ term = IdleTerm
    /\ level = IdleLevel
    /\ editor = 0
    /\ widget = 0
    /\ mlr = 0
    /\ ui = 0
    /\ last = IdleLast

NextTrigger == RunnerUpdateStep

SpecTrigger == InitTrigger /\ [][NextTrigger]_vars

(***************************************************************************)
(* SpecSeq: play_levels, the run loop rooted at a MultiLevelRunner over a  *)
(* list of up to MaxFiles paths.  Behind each path is one of the levels    *)
(* SeqLevels (two cells, the actor starting on the left one or on the      *)
(* trigger), no file, or a file that does not parse.                       *)
(***************************************************************************)
SeqLevels ==
    {StripLevel(<<2, 1>>, PlainCells(<<2, 1>>), V2_make(0, 0), t) :
        t \in {<<>>, <<Trigger_make(V2_make(1, 0), "exit0")>>,
               <<Trigger_make(V2_make(1, 0), "exit1")>>,
               <<Trigger_make(V2_make(1, 0), "door")>>,
               <<Trigger_make(V2_make(0, 0), "exit0")>>}}
        \cup {StripLevel(<<2, 1>>, PlainCells(<<2, 1>>), V2_make(1, 0),
                         <<Trigger_make(V2_make(0, 0), "exit2")>>)}

SeqFiles ==
    {[kind |-> "level", level |-> l] : l \in SeqLevels}
        \cup {[kind |-> "missing"], [kind |-> "malformed"]}

SeqPath(i) == "levels/l" \o ToString(i)

SeqEvents ==
    {KeyEvent("d", "NONE"), KeyEvent("a", "NONE"), KeyEvent("r", "NONE"),
     KeyEvent("x", "NONE"), KeyEvent("x", "SHIFT"), KeyEvent("c", "CONTROL"),
     MouseDownLeft(0, 0)}

InitSeq ==
    /\ \E n \in 0..MaxFiles : \E disk \in [1..n -> SeqFiles] :
           /\ term = [IdleTerm EXCEPT
                         !.files = [p \in {SeqPath(i) : i \in 1..n} |->
                                       disk[CHOOSE i \in 1..n : SeqPath(i) = p]]]
           /\ mlr = MultiLevelRunner_new(1, [i \in 1..n |-> SeqPath(i)])
    /\ ui = [UiContext_create("mlr") EXCEPT !.id_counter = 3]
    /\ level = IdleLevel
    /\ runner = IdleRunner
    /\ editor = 0
    /\ widget = 0
    /\ last = IdleLast

\* play_levels: runner.start_next_level(), then ui.run(&mut runner)
play_levels ==
    /\ ui.pc = "main"
    /\ ui.root = "mlr"
    /\ mlr' = MultiLevelRunner_start_next_level(mlr, term.files)
    /\ ui' = [ui EXCEPT !.pc = "start"]
    /\ UNCHANGED <<level, runner, editor, widget, term, last>>

NextSeq ==
    \/ play_levels
    \/ RunStart
    \/ \E e \in SeqEvents : RunRead(e)
    \/ RunPollEnd
    \/ RunTick

SpecSeq == InitSeq /\ [][NextSeq]_vars

(***************************************************************************)
(* SpecRun: UiContext::run over a root that is any implementor of          *)
(* UiWidget: its input and its update return any Option<UiEvent>, tagged   *)
(* with the root's own id or with another widget's, of any kind.  The      *)
(* user sends up to MaxBatch events and resizes the terminal at any time.  *)
(***************************************************************************)
UiEventKinds == {"Ok", "Canceled", "Result", "Changed", "None"}

Replies ==
    {NoEvent} \cup {UiWidget_event(id, kind, "") : id \in 1..2, kind \in UiEventKinds}

RunEvents ==
    {KeyEvent("c", "CONTROL"), KeyEvent("c", "NONE"), MouseDownLeft(0, 0)}

InitRun ==
    /\ \E on_input \in Replies, on_update \in Replies :
           widget = [id |-> 1, on_input |-> on_input, on_update |-> on_update,
                     calls |-> <<>>]
    /\ \E size \in TermSizes : term = [IdleTerm EXCEPT !.size = size, !.input = MaxBatch]
    /\ ui = [UiContext_create("widget") EXCEPT !.id_counter = 3, !.pc = "start"]
    /\ level = IdleLevel
    /\ runner = IdleRunner
    /\ editor = 0
    /\ mlr = 0
    /\ last = IdleLast

\* The user resizes the terminal.
TermResize ==
    /\ ui.pc \in {"poll", "tick"}
    /\ \E size \in TermSizes \ {term.size} : term' = [term EXCEPT !.size = size]
    /\ UNCHANGED <<level, runner, editor, mlr, widget, ui, last>>

NextRun ==
    \/ RunStart
    \/ \E e \in RunEvents : RunRead(e)
    \/ RunPollEnd
    \/ RunTick
    \/ TermResize

SpecRun == InitRun /\ [][NextRun]_vars

(***************************************************************************)
(* SpecLoop: UiContext::run with every poll that times out as a step of    *)
(* its own, over a root that answers input and update with no event or     *)
(* with its own Ok.  The user sends up to MaxBatch events and resizes the  *)
(* terminal at any time.  Fairness: poll(100ms) returns, a batch of        *)
(* available events ends (poll(0) finds no event at some point), and       *)
(* resize, update and print return.                                        *)
(***************************************************************************)
InitLoop ==
    /\ InitRun
    /\ widget.on_input \in {NoEvent, UiWidget_event(1, "Ok", "")}
    /\ widget.on_update \in {NoEvent, UiWidget_event(1, "Ok", "")}

NextLoop ==
    \/ RunStart
    \/ \E e \in RunEvents : RunRead(e)
    \/ ui.has_input /\ RunPollEnd
    \/ RunTimeout
    \/ RunTick
    \/ TermResize

SpecLoop ==
    /\ InitLoop
    /\ [][NextLoop]_vars
    /\ WF_vars(RunStart)
    /\ WF_vars(RunTimeout)
    /\ WF_vars(ui.has_input /\ RunPollEnd)
    /\ WF_vars(RunTick)

(***************************************************************************)
(* SpecEdit: editor_for_file, the run loop rooted at a LevelEditor opened  *)
(* on a level file, for every sequence of up to MaxInputs events.  The     *)
(* file holds a level with a box to push and a branch trigger behind it,   *)
(* or a level whose start point is on the terminal trigger.  The events    *)
(* are keys of every editor mode, a mouse click and crossterm's Resize.    *)
(***************************************************************************)
EditLevels ==
    {StripLevel(<<3, 1>>,
                <<<<EMPTY_CELL,
                    [letter |-> "a", background |-> "Black", foreground |-> "White"],
                    EMPTY_CELL>>>>,
                V2_make(0, 0), <<Trigger_make(V2_make(1, 0), "exit1")>>),
     StripLevel(<<2, 1>>, PlainCells(<<2, 1>>), V2_make(0, 0),
                <<Trigger_make(V2_make(0, 0), "exit0")>>)}

EditEvents ==
    {KeyEvent("Esc", "NONE"), KeyEvent("F3", "NONE"), KeyEvent("F5", "NONE"),
     KeyEvent("F6", "NONE"), KeyEvent("F8", "NONE"), KeyEvent("F8", "SHIFT"),
     KeyEvent("F9", "NONE"), KeyEvent("Right", "NONE"), KeyEvent("d", "NONE"),
     KeyEvent("r", "NONE"), KeyEvent("v", "NONE"), KeyEvent(" ", "NONE"),
     KeyEvent("m", "NONE"), MouseDownLeft(3, 2),
     [type |-> "Resize", code |-> "none", modifiers |-> "NONE",
      column |-> 80, row |-> 24],
     KeyEvent("c", "CONTROL")}

InitEdit ==
    /\ \E l \in EditLevels :
           /\ term = [IdleTerm EXCEPT
                         !.files = [p \in {"level.yaml"} |-> [kind |-> "level", level |-> l]],
                         !.input = MaxInputs]
           /\ editor = LevelEditor_new_from_path(
                           1, "level.yaml",
                           [p \in {"level.yaml"} |-> [kind |-> "level", level |-> l]])
    /\ ui = [UiContext_create("editor") EXCEPT !.id_counter = 3, !.pc = "start"]
    /\ level = IdleLevel
    /\ runner = IdleRunner
    /\ mlr = 0
    /\ widget = 0
    /\ last = IdleLast

NextEdit ==
    \/ RunStart
    \/ \E e \in EditEvents : RunRead(e)
    \/ RunPollEnd
    \/ RunTick

SpecEdit == InitEdit /\ [][NextEdit]_vars

(***************************************************************************)
(* SpecRect: Rectangle::normalized applied to a rectangle and then to its  *)
(* own result.  The rectangles have every corner and every size component  *)
(* (negative, zero, positive) within MaxLen of zero.  last.e is the first  *)
(* rectangle, last.before the receiver of the latest call, last.ret its    *)
(* result and last.n the number of calls made.                             *)
(***************************************************************************)
InitRect ==
    /\ \E px \in -MaxLen..MaxLen, py \in -MaxLen..MaxLen,
          sx \in -MaxLen..MaxLen, sy \in -MaxLen..MaxLen :
           last = [op |-> "none", n |-> 0,
                   e |-> Rectangle_make(V2_make(px, py), V2_make(sx, sy)),
                   ret |-> Rectangle_make(V2_make(px, py), V2_make(sx, sy))]
    /\ level = IdleLevel
    /\ runner = IdleRunner
    /\ term = IdleTerm
    /\ editor = 0
    /\ mlr = 0
    /\ widget = 0
    /\ ui = 0

NextRect ==
    /\ last.n < 2
    /\ last' = [op |-> "normalized", n |-> last.n + 1, e |-> last.e,
                before |-> last.ret, ret |-> Rectangle_normalized(last.ret)]
    /\ UNCHANGED <<level, runner, editor, mlr, widget, term, ui>>

SpecRect == InitRect /\ [][NextRect]_vars

(***************************************************************************)
(* SpecPaint: one input event applied to an editor in Paint mode.  The     *)
(* level is any strip over PaintPalette (a cell of each base colouring and *)
(* one with tinted channels), the preset is any PaintMode and the cursor   *)
(* is on any cell of the grid or of the ring around it.                    *)
(***************************************************************************)
PaintPalette ==
    {EMPTY_CELL,
     [letter |-> "a", background |-> "White", foreground |-> "Black"],
     [letter |-> "b", background |-> "DarkGray", foreground |-> "LightGray"]}

PaintModes ==
    {"BlackBackgroundNormal", "WhiteBackgroundNormal", "Invert", "TextLightGray",
     "TextDarkGray", "BackgroundGray", "BackgroundDarkGray"}

PaintKeys == {" ", "w", "s", "a", "d", "z", "x", "c", "v", "b", "n", "m", "Esc"}

InitPaint ==
    /\ \E fresh \in {LevelEditor_new(1)}, sh \in StripShapes :
       \E d \in [1..sh[2] -> [1..sh[1] -> PaintPalette]], pm \in PaintModes,
          x \in -1..sh[1], y \in -1..sh[2] :
           /\ term = [IdleTerm EXCEPT !.files =
                         [p \in {"level.yaml"} |->
                             [kind |-> "level",
                              level |-> StripLevel(sh, d, V2_make(0, 0), <<>>)]]]
           /\ editor = [fresh EXCEPT
                            !.path = "level.yaml",
                            !.level = StripLevel(sh, d, V2_make(0, 0), <<>>),
                            !.mode = "Paint",
                            !.paintMode = pm,
                            !.cursor_pos = V2_make(x, y)]
    /\ level = IdleLevel
    /\ runner = IdleRunner
    /\ mlr = 0
    /\ widget = 0
    /\ ui = 0
    /\ last = IdleLast

\* widget.input(&event, ui) on the editor
EditorInputStep(e) ==
    \E res \in {LevelEditor_input(editor, e, term)} :
        /\ editor' = res.editor
        /\ term' = res.term
        /\ last' = [op |-> "input", e |-> e, before |-> editor, ret |-> res.ret]
        /\ UNCHANGED <<level, runner, mlr, widget, ui>>

NextPaint ==
    /\ last.op = "none"
    /\ \E code \in PaintKeys : EditorInputStep(KeyEvent(code, "NONE"))

SpecPaint == InitPaint /\ [][NextPaint]_vars

(***************************************************************************)
(* SpecSave: the save key pressed once in an editor in any editing mode,   *)
(* with the cursor anywhere on a row through the grid.  The editor was     *)
(* opened on a level file (path set), or by run_empty_editor (no path) and *)
(* its level then resized to 5 x 5; the write to the file succeeds, fails  *)
(* at File::create or fails in to_writer.                                  *)
(***************************************************************************)
InitSave ==
    /\ \E fresh \in {LevelEditor_new(1)} :
       \E ed \in {[fresh EXCEPT !.path = "level.yaml", !.level = l] : l \in EditLevels}
                 \cup {LevelEditor_resize(fresh, V2_make(5, 5))},
          mode \in {"View", "WriteText", "Paint", "SetMarkers"},
          x \in -1..MaxLen,
          disk \in {"ok", "create_fails", "write_fails"} :
           /\ editor = [ed EXCEPT !.mode = mode, !.cursor_pos = V2_make(x, 0)]
           /\ term = [IdleTerm EXCEPT
                         !.disk = disk,
                         !.files = IF ed.path = "" THEN <<>>
                                   ELSE [p \in {ed.path} |->
                                            [kind |-> "level", level |-> ed.level]]]
    /\ level = IdleLevel
    /\ runner = IdleRunner
    /\ mlr = 0
    /\ widget = 0
    /\ ui = 0
    /\ last = IdleLast

NextSave ==
    /\ last.op = "none"
    /\ EditorInputStep(KeyEvent("F9", "NONE"))

SpecSave == InitSave /\ [][NextSave]_vars

(***************************************************************************)
(* SpecIds: one UiContext from which up to MaxWidgets widgets are          *)
(* constructed, in any order: editors and sequencers (each with its        *)
(* embedded LevelRunner), runners and menus.  widget is the list of the    *)
(* widgets made, each with its id and the id of the widget embedded in it  *)
(* (0 when it has none).                                                   *)
(***************************************************************************)
InitIds ==
    /\ ui = UiContext_create("widget")
    /\ widget = <<>>
    /\ level = IdleLevel
    /\ runner = IdleRunner
    /\ editor = 0
    /\ mlr = 0
    /\ term = IdleTerm
    /\ last = IdleLast

NewWidget(kind) ==
    LET one == UiContext_next_id(ui.id_counter).id_counter
        two == UiContext_next_id(one).id_counter
        made ==
            CASE kind = "editor" ->
                     [kind |-> kind, id |-> LevelEditor_new(ui.id_counter).id,
                      inner |-> LevelEditor_new(ui.id_counter).test_runer.id]
              [] kind = "mlr" ->
                     [kind |-> kind, id |-> MultiLevelRunner_new(ui.id_counter, <<>>).id,
                      inner |-> MultiLevelRunner_new(ui.id_counter, <<>>).level_runner.id]
              [] kind = "runner" ->
                     [kind |-> kind, id |-> LevelRunner_new(ui.id_counter).id, inner |-> 0]
              [] kind = "menu" ->
                     [kind |-> kind, id |-> UiContext_next_id(ui.id_counter).id, inner |-> 0]
    IN  /\ Len(widget) < MaxWidgets
        /\ widget' = Append(widget, made)
        /\ ui' = [ui EXCEPT !.id_counter = IF kind \in {"editor", "mlr"} THEN two ELSE one]
        /\ UNCHANGED <<level, runner, editor, mlr, term, last>>

NextIds == \E kind \in {"editor", "mlr", "runner", "menu"} : NewWidget(kind)

SpecIds == InitIds /\ [][NextIds]_vars

(***************************************************************************)
(* SpecSides: the edge accessors of a Rectangle and contains, applied once *)
(* to a rectangle with its corner within one cell of the origin and size   *)
(* components 0..MaxLen, and to a point of the rectangle or of the ring    *)
(* of cells around it.  last holds the rectangle (e), the point (p) and    *)
(* what each method returned.                                              *)
(***************************************************************************)
InitSides ==
    /\ \E px \in -1..1, py \in -1..1, sx \in 0..MaxLen, sy \in 0..MaxLen :
           last = [op |-> "none",
                   e |-> Rectangle_make(V2_make(px, py), V2_make(sx, sy))]
    /\ level = IdleLevel
    /\ runner = IdleRunner
    /\ term = IdleTerm
    /\ editor = 0
    /\ mlr = 0
    /\ widget = 0
    /\ ui = 0

NextSides ==
    /\ last.op = "none"
    /\ \E dx \in -1..(last.e.size.x + 1), dy \in -1..(last.e.size.y + 1) :
       \E p \in {V2_add(last.e.pos, V2_make(dx, dy))} :
           last' = [op           |-> "sides",
                    e            |-> last.e,
                    p            |-> p,
                    left         |-> Rectangle_left(last.e),
                    right        |-> Rectangle_right(last.e),
                    top          |-> Rectangle_top(last.e),
                    bottom       |-> Rectangle_bottom(last.e),
                    bottom_right |-> Rectangle_bottom_right(last.e),
                    contains     |-> Rectangle_contains(last.e, p)]
    /\ UNCHANGED <<level, runner, editor, mlr, widget, term, ui>>

SpecSides == InitSides /\ [][NextSides]_vars

(***************************************************************************)
(* SpecPlay: a play session of any length: the runner is started on a      *)
(* level and then takes any sequence of movement keys, restarts ('r') and  *)
(* other keys.  The levels are the strips over an empty black cell, a      *)
(* glyph to push on black, the same glyph on white (which the first        *)
(* cancels against) and the '@' token on white (to swap with); the actor   *)
(* starts on any cell.  level is the level the session was started on.     *)
(***************************************************************************)
InitPlay ==
    /\ \E sh \in StripShapes :
           \E d \in [1..sh[2] -> [1..sh[1] ->
                        {EMPTY_CELL,
                         [letter |-> "a", background |-> "Black", foreground |-> "White"],
                         [letter |-> "a", background |-> "White", foreground |-> "Black"],
                         [letter |-> "@", background |-> "White", foreground |-> "Black"]}]],
              p0 \in StripCells(sh) :
               /\ level = StripLevel(sh, d, p0, <<>>)
               /\ runner = LevelRunner_new_with_level(1, StripLevel(sh, d, p0, <<>>))
    /\ editor = 0
    /\ widget = 0
    /\ mlr = 0
    /\ term = IdleTerm
    /\ ui = 0
    /\ last = IdleLast

SpecPlay == InitPlay /\ [][RunnerInputStep]_vars

(***************************************************************************)
(* SpecMode: the editor opened on a level file and driven by the keys that *)
(* switch its mode (the function keys, Escape), a mouse click and update   *)
(* ticks, in any order and number.  The cursor moves only by the click, so *)
(* the level is not edited; F9 writes it to its file.                      *)
(***************************************************************************)
InitMode ==
    /\ \E l \in EditLevels :
           /\ term = [IdleTerm EXCEPT
                         !.files = [p \in {"level.yaml"} |-> [kind |-> "level", level |-> l]]]
           /\ editor = LevelEditor_new_from_path(
                           1, "level.yaml",
                           [p \in {"level.yaml"} |-> [kind |-> "level", level |-> l]])
    /\ level = IdleLevel
    /\ runner = IdleRunner
    /\ mlr = 0
    /\ widget = 0
    /\ ui = 0
    /\ last = IdleLast

NextMode ==
    \/ \E e \in {KeyEvent("F2", "NONE"), KeyEvent("F3", "NONE"), KeyEvent("F5", "NONE"),
                 KeyEvent("F6", "NONE"), KeyEvent("F8", "NONE"), KeyEvent("F8", "SHIFT"),
                 KeyEvent("F9", "NONE"), KeyEvent("Esc", "NONE"), MouseDownLeft(3, 2)} :
           EditorInputStep(e)
    \/ \E res \in {LevelEditor_update(editor, term.size)} :
           /\ editor' = res.editor
           /\ last' = [op |-> "update", e |-> KeyEvent("none", "NONE"),
                       before |-> editor, ret |-> res.ret]
           /\ UNCHANGED <<level, runner, mlr, widget, term, ui>>

SpecMode == InitMode /\ [][NextMode]_vars

(***************************************************************************)
(* SpecTool: one operation of the editor's View, WriteText and SetMarkers  *)
(* modes, on an editor in one of five situations:                          *)
(*   - text entry on any strip over PaintPalette, the cursor on the grid   *)
(*     or the ring around it, the wrap column 2;                           *)
(*   - marker placement on a strip of two cells that carries up to         *)
(*     MaxTriggers triggers (also several on one cell), the cursor on a    *)
(*     cell or right of the strip;                                         *)
(*   - a committed selection (positive or not yet normalized size) on a    *)
(*     3 x 1 or 2 x 2 level over LevelPalette, the cursor on the grid or   *)
(*     just right of or below it;                                          *)
(*   - a selection in progress, anchored at (0,0) or (1,1) with the size   *)
(*     the last update gave it, the cursor since moved anywhere around;    *)
(*   - a chequered level of 5..6 by 5..6 cells, or a level of EditLevels,  *)
(*     the cursor at any corner from (4,4) to (7,7).                       *)
(* The operation is one key of ToolEvents or one update tick.              *)
(***************************************************************************)
ToolEvents ==
    {KeyEvent("b", "NONE"), KeyEvent("B", "SHIFT"), KeyEvent("Backspace", "NONE"),
     KeyEvent("Enter", "NONE"), KeyEvent("Esc", "NONE"),
     KeyEvent("F3", "NONE"), KeyEvent("F4", "NONE"),
     KeyEvent("x", "NONE"), KeyEvent("c", "NONE"), KeyEvent("v", "NONE"),
     KeyEvent("z", "NONE"), KeyEvent("k", "NONE"), KeyEvent("l", "NONE"),
     KeyEvent("0", "NONE"), KeyEvent("m", "NONE"), KeyEvent("R", "SHIFT")}

InitTool ==
    /\ \E fresh \in {LevelEditor_new(1)} :
       LET opened(l) == [fresh EXCEPT !.path = "level.yaml", !.level = l]
           text ==
               UNION {{[opened(StripLevel(sh, d, V2_make(0, 0), <<>>)) EXCEPT
                            !.mode = "WriteText",
                            !.cursor_pos = V2_make(c[1], c[2]),
                            !.wrap_pos = V2_make(c[3], 0)]
                       : d \in [1..sh[2] -> [1..sh[1] -> PaintPalette]],
                         c \in (-1..sh[1]) \X (-1..sh[2]) \X {2}}
                      : sh \in StripShapes}
           markers ==
               {[opened(StripLevel(<<2, 1>>, PlainCells(<<2, 1>>), V2_make(0, 0), t))
                     EXCEPT !.mode = "SetMarkers", !.cursor_pos = V2_make(x, 0)]
                : t \in TriggerLists(<<2, 1>>), x \in 0..2}
           selected ==
               UNION {{[opened(StripLevel(sh, d, V2_make(0, 0), <<>>)) EXCEPT
                            !.cursor_pos = V2_make(c[1], c[2]),
                            !.selection_rect = Rectangle_make(p, V2_make(s[1], s[2]))]
                       : d \in [1..sh[2] -> [1..sh[1] -> LevelPalette]],
                         c \in (0..sh[1]) \X (0..sh[2]),
                         p \in StripCells(sh),
                         s \in {<<1, 1>>, <<2, 1>>, <<1, 2>>, <<2, 2>>, <<0, 1>>}}
                      : sh \in {<<3, 1>>, <<2, 2>>}}
           selecting ==
               {[opened(l) EXCEPT
                     !.selecting_rect = TRUE,
                     !.cursor_pos = V2_make(c[1], c[2]),
                     !.selection_rect = Rectangle_make(V2_make(a, a), V2_make(s[1], s[2]))]
                : l \in EditLevels, a \in {0, 1}, c \in (-1..3) \X (-1..3),
                  s \in {<<1, 1>>, <<2, 2>>, <<0, 0>>, <<-1, 2>>}}
           chequered(w, h) ==
               StripLevel(<<w, h>>,
                          [y \in 1..h |-> [x \in 1..w |->
                              IF (x + y) % 2 = 0
                              THEN [letter |-> "a", background |-> "White",
                                    foreground |-> "Black"]
                              ELSE EMPTY_CELL]],
                          V2_make(0, 0), <<>>)
           sized ==
               {[opened(l) EXCEPT !.cursor_pos = V2_make(c[1], c[2])]
                : l \in {chequered(s[1], s[2]) : s \in (5..6) \X (5..6)} \cup EditLevels,
                  c \in (4..7) \X (4..7)}
       IN  \E ed \in text \cup markers \cup selected \cup selecting \cup sized :
               /\ editor = ed
               /\ term = [IdleTerm EXCEPT !.files =
                             [p \in {"level.yaml"} |-> [kind |-> "level", level |-> ed.level]]]
    /\ level = IdleLevel
    /\ runner = IdleRunner
    /\ mlr = 0
    /\ widget = 0
    /\ ui = 0
    /\ last = IdleLast

NextTool ==
    /\ last.op = "none"
    /\ \/ \E e \in ToolEvents : EditorInputStep(e)
       \/ \E res \in {LevelEditor_update(editor, term.size)} :
              /\ editor' = res.editor
              /\ last' = [op |-> "update", e |-> KeyEvent("none", "NONE"),
                          before |-> editor, ret |-> res.ret]
              /\ UNCHANGED <<level, runner, mlr, widget, term, ui>>

SpecTool == InitTool /\ [][NextTool]_vars

(***************************************************************************)
(* C1: after set(p, cell) with p inside the grid the indexed read at p     *)
(* returns cell and no other cell changes; with p outside the grid the     *)
(* whole Level (cells, width, height) is unchanged and the indexed read at *)
(* p returns the shared empty cell (null glyph, black background, white    *)
(* foreground).                                                            *)
(***************************************************************************)
C1_SetIndexRoundTrip ==
    last.op = "set" =>
        LET b == last.before
            p == last.pos
        IN  IF p.x >= 0 /\ p.x < b.width /\ p.y >= 0 /\ p.y < b.height
            THEN /\ Level_index(level, p) = last.value
                 /\ \A q \in Probes(b) \ {p} : Level_index(level, q) = Level_index(b, q)
                 /\ level.width = b.width /\ level.height = b.height
                 /\ Len(level.data) = b.height
                 /\ \A y \in 1..b.height : Len(level.data[y]) = b.width
            ELSE /\ level = b
                 /\ Level_index(level, p) =
                        [letter |-> NUL, background |-> "Black", foreground |-> "White"]

\* A set inside the grid that changed the cell, and a set outside it.
C1_Witness ==
    /\ last.op = "set"
    /\ Level_contains(last.before, last.pos)
    /\ Level_index(last.before, last.pos) /= last.value
    /\ last.before.width /= last.before.height

(***************************************************************************)
(* C2 as claimed: for every actor position A and cardinal direction d, if  *)
(* the cell at A+d holds a non-empty glyph whose foreground is black or    *)
(* white and the cell at A+2d is inside the grid, is empty and has the     *)
(* background of A+d, then after walk(d) the actor is at A+d, the glyph    *)
(* that was at A+d is at A+2d and the cell at A+d is empty.                *)
(***************************************************************************)
C2_PushAsClaimed ==
    last.op = "input" /\ IsMoveKey(last.e) =>
        LET b  == last.before
            T  == V2_add(b.pos, KeyDir(last.e))
            N  == V2_add(T, KeyDir(last.e))
            tc == Level_index(b.level, T)
            nc == Level_index(b.level, N)
        IN  /\ tc.letter \notin {NUL, " "}
            /\ tc.foreground \in {"Black", "White"}
            /\ N.x >= 0 /\ N.x < b.level.width /\ N.y >= 0 /\ N.y < b.level.height
            /\ nc.letter \in {NUL, " "}
            /\ nc.background = tc.background
            => /\ runner.pos = T
               /\ Level_index(runner.level, N).letter = tc.letter
               /\ Level_index(runner.level, T).letter \in {NUL, " "}

(***************************************************************************)
(* C2 as amended: the same, provided the cell at A+d also has the          *)
(* background of the actor's own cell A.                                   *)
(***************************************************************************)
C2_Push ==
    last.op = "input" /\ IsMoveKey(last.e) =>
        LET b  == last.before
            T  == V2_add(b.pos, KeyDir(last.e))
            N  == V2_add(T, KeyDir(last.e))
            tc == Level_index(b.level, T)
            nc == Level_index(b.level, N)
        IN  /\ tc.background = Level_index(b.level, b.pos).background
            /\ tc.letter \notin {NUL, " "}
            /\ tc.foreground \in {"Black", "White"}
            /\ N.x >= 0 /\ N.x < b.level.width /\ N.y >= 0 /\ N.y < b.level.height
            /\ nc.letter \in {NUL, " "}
            /\ nc.background = tc.background
            => /\ runner.pos = T
               /\ Level_index(runner.level, N).letter = tc.letter
               /\ Level_index(runner.level, T).letter \in {NUL, " "}

\* A push to the left on a white background: the glyph is now left of the actor.
C2_Witness ==
    /\ last.op = "input" /\ last.e.code = "a"
    /\ last.before.pos = V2_make(2, 0)
    /\ Level_index(last.before.level, V2_make(2, 0)).background = "White"
    /\ Level_index(last.before.level, V2_make(1, 0)) =
           [letter |-> "a", background |-> "White", foreground |-> "Black"]
    /\ Level_index(last.before.level, V2_make(0, 0)) =
           [letter |-> " ", background |-> "White", foreground |-> "Black"]
    /\ runner.pos = V2_make(1, 0)
    /\ Level_index(runner.level, V2_make(0, 0)).letter = "a"

(***************************************************************************)
(* C3 as claimed: with the actor at A and a non-empty glyph with a black   *)
(* or white foreground at A+d, if A+2d is outside the grid then after      *)
(* walk(d) the actor is still at A and no cell of the grid has changed.    *)
(***************************************************************************)
C3_EdgeAsClaimed ==
    last.op = "input" /\ IsMoveKey(last.e) =>
        LET b  == last.before
            T  == V2_add(b.pos, KeyDir(last.e))
            N  == V2_add(T, KeyDir(last.e))
            tc == Level_index(b.level, T)
        IN  /\ T.x >= 0 /\ T.x < b.level.width /\ T.y >= 0 /\ T.y < b.level.height
            /\ tc.letter \notin {NUL, " "}
            /\ tc.foreground \in {"Black", "White"}
            /\ ~(N.x >= 0 /\ N.x < b.level.width /\ N.y >= 0 /\ N.y < b.level.height)
            => runner.pos = b.pos /\ runner.level = b.level

(***************************************************************************)
(* C3 as amended: the same, except when the swap rule applies, that is     *)
(* when the cells at A and A+d have different backgrounds, both black or   *)
(* white, and the glyph at A+d is '@'.                                     *)
(***************************************************************************)
C3_Edge ==
    last.op = "input" /\ IsMoveKey(last.e) =>
        LET b  == last.before
            T  == V2_add(b.pos, KeyDir(last.e))
            N  == V2_add(T, KeyDir(last.e))
            hc == Level_index(b.level, b.pos)
            tc == Level_index(b.level, T)
        IN  /\ T.x >= 0 /\ T.x < b.level.width /\ T.y >= 0 /\ T.y < b.level.height
            /\ tc.letter \notin {NUL, " "}
            /\ tc.foreground \in {"Black", "White"}
            /\ ~(N.x >= 0 /\ N.x < b.level.width /\ N.y >= 0 /\ N.y < b.level.height)
            /\ ~(/\ hc.background /= tc.background
                 /\ hc.background \in {"Black", "White"}
                 /\ tc.background \in {"Black", "White"}
                 /\ tc.letter = "@")
            => runner.pos = b.pos /\ runner.level = b.level

\* The actor next to a pushable glyph on the last cell of the strip, on the
\* glyph's background, has walked towards it.
C3_Witness ==
    /\ last.op = "input" /\ last.e.code = "Down"
    /\ last.before.level.height = 3
    /\ last.before.pos = V2_make(0, 1)
    /\ Level_index(last.before.level, V2_make(0, 1)).background = "Black"
    /\ Level_index(last.before.level, V2_make(0, 2)) =
           [letter |-> "a", background |-> "Black", foreground |-> "White"]
    /\ runner.pos = V2_make(0, 1)

(***************************************************************************)
(* C4: after walk followed by the follow step (keep_cursor_in_view), for   *)
(* every actor position inside the grid and every direction, the actor     *)
(* lies inside the viewport rectangle shrunk by the safety margin of 5     *)
(* cells on every side.                                                    *)
(***************************************************************************)
C4_ActorInsideMargin ==
    /\ last.op = "input" /\ IsMoveKey(last.e)
    /\ Level_contains(last.before.level, last.before.pos)
    => /\ runner.pos.x >= runner.view_corner.x + 5
       /\ runner.pos.x <= runner.view_corner.x + term.size[1] - 1 - 5
       /\ runner.pos.y >= runner.view_corner.y + 5
       /\ runner.pos.y <= runner.view_corner.y + term.size[2] - 1 - 5

(***************************************************************************)
(* C5 as claimed: if a trigger with identifier exit0 is at the actor's     *)
(* position, update() bubbles Ok tagged with the runner's identity; if a   *)
(* trigger there has identifier exit1 or exit2, update() bubbles Result    *)
(* carrying that identifier; if no trigger is at the actor's position,     *)
(* update() bubbles neither Ok nor Result.                                 *)
(***************************************************************************)
C5_TriggerAsClaimed ==
    last.op = "update" =>
        LET b    == last.before
            here == {b.level.triggers[i].id :
                        i \in {j \in DOMAIN b.level.triggers :
                                  b.level.triggers[j].pos = b.pos}}
        IN  /\ "exit0" \in here =>
                   last.ret = [some |-> TRUE, id |-> b.id, kind |-> "Ok", value |-> ""]
            /\ \A id \in here \cap {"exit1", "exit2"} :
                   last.ret = [some |-> TRUE, id |-> b.id, kind |-> "Result", value |-> id]
            /\ here = {} => last.ret.kind \notin {"Ok", "Result"}

(***************************************************************************)
(* C5 as amended: the first trigger of the level's list that is at the     *)
(* actor's position decides: exit0 bubbles Ok tagged with the runner's     *)
(* identity, exit1 or exit2 bubbles Result carrying that identifier; with  *)
(* no trigger at the actor's position, or with another identifier on the   *)
(* first one there, update() bubbles neither Ok nor Result.                *)
(***************************************************************************)
C5_Trigger ==
    last.op = "update" =>
        LET b  == last.before
            at == {j \in DOMAIN b.level.triggers : b.level.triggers[j].pos = b.pos}
            id == IF at = {} THEN "none"
                  ELSE b.level.triggers[CHOOSE j \in at : \A k \in at : j <= k].id
        IN  /\ id = "exit0" =>
                   last.ret = [some |-> TRUE, id |-> b.id, kind |-> "Ok", value |-> ""]
            /\ id \in {"exit1", "exit2"} =>
                   last.ret = [some |-> TRUE, id |-> b.id, kind |-> "Result", value |-> id]
            /\ id \notin {"exit0", "exit1", "exit2"} =>
                   last.ret.kind \notin {"Ok", "Result"}

\* An update tick with a branch trigger under the actor and the terminal
\* trigger elsewhere has bubbled the branch result.
C5_Witness ==
    /\ last.op = "update"
    /\ Len(last.before.level.triggers) = 2
    /\ last.before.level.triggers[1].id = "exit0"
    /\ last.before.level.triggers[1].pos /= last.before.pos
    /\ last.before.level.triggers[2].id = "exit2"
    /\ last.before.level.triggers[2].pos = last.before.pos
    /\ last.ret.kind = "Result" /\ last.ret.value = "exit2"

(***************************************************************************)
(* C6: for a level list of n loadable levels, each time the embedded       *)
(* simulation bubbles Ok or a branch Result while level k is current,      *)
(* current_level becomes k+1 and the embedded runner is restarted on the   *)
(* level loaded from path k+1 with the actor at that level's start point;  *)
(* when k+1 equals n the sequencer stops running and sets the completion   *)
(* message (which the print of the same tick shows).                       *)
(***************************************************************************)
C6_Advance ==
    /\ last.op \in {"input", "update"}
    /\ \A p \in DOMAIN term.files : term.files[p].kind = "level"
    /\ last.before.current_level < Len(last.before.levels.files)
    /\ (IF last.op = "update"
        THEN LevelRunner_update(last.before.level_runner, term.size)
        ELSE LevelRunner_input(last.before.level_runner, last.e, term.size)
       ).ret.kind \in {"Ok", "Result"}
    => LET k == last.before.current_level
           n == Len(mlr.levels.files)
       IN  /\ mlr.current_level = k + 1
           /\ mlr.levels = last.before.levels
           /\ IF k + 1 < n
              THEN LET l == term.files[mlr.levels.files[k + 2]].level
                   IN  /\ mlr.level_runner.level = l
                       /\ mlr.level_runner.backup_level = l
                       /\ mlr.level_runner.pos = l.p0
                       /\ mlr.message = ""
                       /\ term.message = ""
              ELSE "Thank you for playing the game" \in {mlr.message, term.message}

\* The actor stood on the branch trigger of the first of two levels and the
\* tick has started the second level.
C6_Witness ==
    /\ last.op = "update"
    /\ Len(mlr.levels.files) = 2
    /\ \A p \in DOMAIN term.files : term.files[p].kind = "level"
    /\ last.before.current_level = 0
    /\ last.before.level_runner.pos = V2_make(1, 0)
    /\ last.before.level_runner.level.triggers = <<Trigger_make(V2_make(1, 0), "exit1")>>
    /\ mlr.current_level = 1
    /\ mlr.level_runner.pos = V2_make(0, 0)

(***************************************************************************)
(* C7: once the sequencer's index has exhausted the level list, the        *)
(* sequencer displays its completion message and does not bubble its own   *)
(* terminal event (Ok) until at least one keypress has been received after *)
(* the message was shown; with no keypress the run loop keeps running.     *)
(***************************************************************************)
C7_WaitsForKey ==
    /\ last.op = "update"
    /\ last.ret.some /\ last.ret.kind = "Ok" /\ last.ret.id = mlr.id
    => /\ mlr.current_level >= Len(mlr.levels.files)
       /\ term.message /= ""
       /\ term.typed

(***************************************************************************)
(* C8: UiContext::run returns normally only when the kill combination      *)
(* Ctrl+C is read, or the root's input or update returns an event whose    *)
(* identity equals the root's and whose kind is Ok, Canceled or Result.    *)
(* An event tagged with any other identity, or of kind Changed or None, or *)
(* no event, never stops the loop.                                         *)
(***************************************************************************)
C8_ExitRule ==
    LET terminal == /\ last.ret.some
                    /\ last.ret.id = widget.id
                    /\ last.ret.kind \in {"Ok", "Canceled", "Result"}
    IN  /\ ui.pc = "done" =>
               \/ last.op = "kill" /\ last.e = KeyEvent("c", "CONTROL")
               \/ last.op \in {"input", "update"} /\ terminal
        /\ last.op \in {"input", "update"} /\ ~terminal => ui.pc /= "done"

\* The root answered an input event with Ok tagged with another widget's
\* id, the loop went on, and the root's own Result from update ended it.
C8_Witness ==
    /\ ui.pc = "done"
    /\ ui.has_input
    /\ widget.on_input = [some |-> TRUE, id |-> 2, kind |-> "Ok", value |-> ""]
    /\ last.op = "update"
    /\ last.ret = [some |-> TRUE, id |-> 1, kind |-> "Result", value |-> ""]

(***************************************************************************)
(* C9: the editor never terminates from a simulation result.  In Play      *)
(* mode, whenever the embedded simulation bubbles Ok, Canceled or Result   *)
(* (from input or update), the editor switches to View mode and bubbles    *)
(* Changed tagged with its own identity; the editor's input and update     *)
(* never return an event of kind Ok, Canceled or Result; a run loop rooted *)
(* at the editor exits only through the kill combination.                  *)
(***************************************************************************)
C9_NoTerminalEvent ==
    /\ (/\ last.op \in {"input", "update"}
        /\ last.before.mode = "Play"
        /\ last.op = "input" => last.e /= KeyEvent("Esc", "NONE")
        /\ (IF last.op = "update"
            THEN LevelRunner_update(last.before.test_runer, term.size)
            ELSE LevelRunner_input(last.before.test_runer, last.e, term.size)
           ).ret.kind \in {"Ok", "Canceled", "Result"})
       => /\ editor.mode = "View"
          /\ last.ret = [some |-> TRUE, id |-> editor.id, kind |-> "Changed", value |-> ""]
    /\ last.op \in {"input", "update"} => last.ret.kind \notin {"Ok", "Canceled", "Result"}
    /\ ui.pc = "done" => last.op = "kill" /\ last.e = KeyEvent("c", "CONTROL")

\* In Play mode the actor stood on the branch trigger and the tick has
\* brought the editor back to View mode.
C9_Witness ==
    /\ last.op = "update"
    /\ last.before.mode = "Play"
    /\ last.before.test_runer.pos = V2_make(1, 0)
    /\ last.before.test_runer.level.triggers = <<Trigger_make(V2_make(1, 0), "exit1")>>
    /\ editor.mode = "View"
    /\ last.ret.kind = "Changed"
    /\ ui.pc = "poll"

(***************************************************************************)
(* C10: play isolation.  When Play mode begins the embedded simulation     *)
(* holds a copy of the editor's level (and the same copy as its backup for *)
(* restart); every input event and update tick processed while the editor  *)
(* is in Play mode, the one that leaves Play mode included, leaves the      *)
(* editor's own level (cells, start point, triggers, dimensions) unchanged. *)
(***************************************************************************)
C10_PlayIsolation ==
    /\ (/\ last.op = "input"
        /\ last.before.mode /= "Play"
        /\ editor.mode = "Play")
       => /\ editor.level = last.before.level
          /\ editor.test_runer.level = editor.level
          /\ editor.test_runer.backup_level = editor.level
    /\ last.op \in {"input", "update"} /\ last.before.mode = "Play"
       => editor.level = last.before.level

\* A key pressed in Play mode has pushed the box in the simulation's copy:
\* the copy differs from the editor's level, which is as it was.
C10_Witness ==
    /\ last.op = "input"
    /\ last.before.mode = "Play"
    /\ editor.mode = "Play"
    /\ last.before.test_runer.level = editor.level
    /\ editor.test_runer.level /= editor.level
    /\ editor.test_runer.level.data[1][3].letter = "a"


(***************************************************************************)
(* C11: in every reachable state of the editor the level's start point and *)
(* every trigger position lie within [0,width) x [0,height).               *)
(***************************************************************************)
C11_CoordinatesInGrid ==
    LET l         == editor.level
        inside(p) == 0 <= p.x /\ p.x < l.width /\ 0 <= p.y /\ p.y < l.height
    IN  /\ inside(l.p0)
        /\ \A i \in DOMAIN l.triggers : inside(l.triggers[i].pos)


(***************************************************************************)
(* C12: for every rectangle r, with zero and negative size components      *)
(* too, normalized(r) has strictly positive width and height, and          *)
(* normalized(normalized(r)) = normalized(r).                              *)
(***************************************************************************)
C12_NormalizedIdempotent ==
    /\ last.n >= 1 => last.ret.size.x > 0 /\ last.ret.size.y > 0
    /\ last.n = 2 => last.ret = last.before

\* normalized has been applied twice to a rectangle of zero width and
\* negative height, which the first call changed.
C12_Witness ==
    /\ last.n = 2
    /\ last.e.size.x = 0
    /\ last.e.size.y < 0
    /\ last.before /= last.e


(***************************************************************************)
(* C13: painting with BackgroundGray or BackgroundDarkGray sets the        *)
(* background of the painted cell to that tint and leaves its foreground   *)
(* and glyph unchanged; TextLightGray and TextDarkGray set only the        *)
(* foreground; no preset changes a glyph, no cell but the painted one      *)
(* changes, and painting a position outside the grid changes nothing.      *)
(***************************************************************************)
C13_PaintChannels ==
    last.op = "input" /\ last.before.mode = "Paint" =>
        LET b      == last.before
            l      == b.level
            dir    == CASE last.e.code = "w" -> [x |-> 0, y |-> -1]
                        [] last.e.code = "s" -> [x |-> 0, y |-> 1]
                        [] last.e.code = "a" -> [x |-> -1, y |-> 0]
                        [] last.e.code = "d" -> [x |-> 1, y |-> 0]
                        [] OTHER -> [x |-> 0, y |-> 0]
            pos    == [x |-> b.cursor_pos.x + dir.x, y |-> b.cursor_pos.y + dir.y]
            paints == last.e.code \in {" ", "w", "s", "a", "d"}
            inside == 0 <= pos.x /\ pos.x < l.width /\ 0 <= pos.y /\ pos.y < l.height
            old    == l.data[pos.y + 1][pos.x + 1]
            new    == editor.level.data[pos.y + 1][pos.x + 1]
        IN  /\ editor.level.width = l.width /\ editor.level.height = l.height
            /\ \A y \in 1..l.height : \A x \in 1..l.width :
                   /\ editor.level.data[y][x].letter = l.data[y][x].letter
                   /\ ~(paints /\ inside /\ x = pos.x + 1 /\ y = pos.y + 1)
                          => editor.level.data[y][x] = l.data[y][x]
            /\ paints /\ ~inside => editor.level = l
            /\ paints /\ inside =>
                   /\ b.paintMode = "BackgroundGray" =>
                          new = [old EXCEPT !.background = "LightGray"]
                   /\ b.paintMode = "BackgroundDarkGray" =>
                          new = [old EXCEPT !.background = "DarkGray"]
                   /\ b.paintMode = "TextLightGray" =>
                          new = [old EXCEPT !.foreground = "LightGray"]
                   /\ b.paintMode = "TextDarkGray" =>
                          new = [old EXCEPT !.foreground = "DarkGray"]

\* The space key painted a glyph cell that is black on white with the
\* BackgroundGray preset: the cell changed, in its background.
C13_Witness ==
    /\ last.op = "input"
    /\ last.e = KeyEvent(" ", "NONE")
    /\ last.before.paintMode = "BackgroundGray"
    /\ Level_contains(editor.level, editor.cursor_pos)
    /\ Level_index(last.before.level, editor.cursor_pos)
           = [letter |-> "a", background |-> "White", foreground |-> "Black"]
    /\ Level_index(editor.level, editor.cursor_pos)
           = [letter |-> "a", background |-> "LightGray", foreground |-> "Black"]


(***************************************************************************)
(* C14: an editor in ErrorMessage mode stays in it, with its level, cursor *)
(* and every other field but the redraw flag unchanged, across update      *)
(* ticks, the run loop's resize and every event that is not a key; a key   *)
(* event delivered to it sets the mode to View and changes nothing else,   *)
(* in the editor or in the files.                                          *)
(***************************************************************************)
C14_ErrorGate ==
    [][editor.mode = "ErrorMessage" =>
          IF last'.op = "input" /\ last'.e.type = "Key" /\ last'.before = editor
          THEN /\ editor' = [editor EXCEPT !.mode = "View", !.need_refresh = TRUE]
               /\ term'.files = term.files
          ELSE /\ editor'.mode = "ErrorMessage"
               /\ [editor' EXCEPT !.need_refresh = TRUE]
                      = [editor EXCEPT !.need_refresh = TRUE]]_vars

\* The overlay was dismissed with F5, which left the editor in View mode,
\* after at least one update tick had passed with the overlay shown.
C14_Witness ==
    /\ last.op = "input"
    /\ last.e = KeyEvent("F5", "NONE")
    /\ last.before.mode = "ErrorMessage"
    /\ editor.mode = "View"
    /\ ui.retry < POLL_RETRIES


(***************************************************************************)
(* C15: F9 pressed in View, WriteText, Paint or SetMarkers mode leaves the *)
(* editor in ErrorMessage mode when the save succeeds and when it fails    *)
(* (File::create fails, to_writer fails, no path); input returns Changed,  *)
(* never an error, and the editor's level is unchanged.  The file holds    *)
(* the level after a save that succeeds and is untouched when there is no  *)
(* path or File::create fails.                                             *)
(***************************************************************************)
C15_SaveRouting ==
    (/\ last.op = "input"
     /\ last.e = KeyEvent("F9", "NONE")
     /\ last.before.mode \in {"View", "WriteText", "Paint", "SetMarkers"})
    => LET fails == last.before.path = "" \/ term.disk /= "ok"
       IN  /\ editor = [last.before EXCEPT !.mode = "ErrorMessage", !.need_refresh = TRUE]
           /\ last.ret = [some |-> TRUE, id |-> editor.id, kind |-> "Changed", value |-> ""]
           /\ term.message = IF fails THEN "Failed to save" ELSE "Saved!"
           /\ ~fails => term.files[editor.path] = [kind |-> "level", level |-> editor.level]
           /\ last.before.path = "" => term.files = <<>>
           /\ last.before.path /= "" /\ term.disk = "create_fails"
                  => term.files[editor.path].kind = "level"

\* F9 was pressed in Paint mode on an editor with a path while File::create
\* fails: the overlay is shown with the failure message.
C15_Witness ==
    /\ last.op = "input"
    /\ last.e = KeyEvent("F9", "NONE")
    /\ last.before.mode = "Paint"
    /\ last.before.path = "level.yaml"
    /\ term.disk = "create_fails"
    /\ editor.mode = "ErrorMessage"
    /\ term.message = "Failed to save"


(***************************************************************************)
(* C16: the ids a UiContext hands out are non-zero and strictly increasing *)
(* in allocation order (a widget's own id before the id of the widget      *)
(* embedded in it, both before the ids of every widget made later, all     *)
(* below the counter), hence pairwise distinct; the id of an editor or a   *)
(* sequencer differs from the id of its embedded LevelRunner.              *)
(***************************************************************************)
C16_IdsIncrease ==
    \A i \in DOMAIN widget :
        /\ widget[i].id > 0
        /\ widget[i].id < ui.id_counter
        /\ widget[i].kind \in {"editor", "mlr"} =>
               /\ widget[i].inner > widget[i].id
               /\ widget[i].inner < ui.id_counter
        /\ \A j \in DOMAIN widget :
               i < j => /\ widget[i].id < widget[j].id
                        /\ widget[i].inner < widget[j].id

\* An editor was made after a menu and before a sequencer.
C16_Witness ==
    /\ Len(widget) >= 3
    /\ widget[1].kind = "menu"
    /\ widget[2].kind = "editor"
    /\ widget[3].kind = "mlr"
    /\ widget[3].inner = 5


(***************************************************************************)
(* C17: in every iteration of the run loop at most 25 polls time out       *)
(* before the root's update is called, with and without input; and unless  *)
(* the loop returns, update is called again and again, also when the user  *)
(* sends nothing.                                                          *)
(***************************************************************************)
C17_PeriodicTick ==
    /\ [](/\ Cardinality({i \in DOMAIN widget.calls : widget.calls[i].op = "timeout"}) <= 25
          /\ ui.pc = "poll" /\ ~ui.has_input => ui.retry > 0)
    /\ (<>[](ui.pc = "done") \/ []<><<RunTick>>_vars)

\* update is about to be called after 25 polls timed out in a row, the user
\* having sent nothing since the loop started.
C17_Witness ==
    /\ ui.pc = "tick"
    /\ ~ui.has_input
    /\ term.input = MaxBatch
    /\ Len(widget.calls) = 25
    /\ \A i \in DOMAIN widget.calls : widget.calls[i].op = "timeout"


(***************************************************************************)
(* C18 as claimed: once a batch of input events is over, with the loop     *)
(* waiting again or returned, the calls of the iteration are the inputs    *)
(* of the batch, with no update, print or resize before any of them, then  *)
(* exactly one update and then exactly one print.                          *)
(***************************************************************************)
C18_BatchAsClaimed ==
    LET calls  == widget.calls
        n      == Len(calls)
        ops(o) == {i \in 1..n : calls[i].op = o}
    IN  (ops("input") /= {} /\ (ui.pc = "done" \/ (ui.pc = "poll" /\ ~ui.has_input)))
        => /\ \A i \in ops("input") : \A j \in 1..(i - 1) :
                  calls[j].op \in {"input", "timeout"}
           /\ n >= 2 /\ calls[n].op = "print" /\ calls[n - 1].op = "update"
           /\ Cardinality(ops("update")) = 1
           /\ Cardinality(ops("print")) = 1

(***************************************************************************)
(* C18: an input call made after another event of the same wait was        *)
(* delivered (has_input) comes right after an input call, and every input  *)
(* call passes the event just read; no update, print or resize precedes    *)
(* an input call of the iteration.  When the loop goes on after the batch, *)
(* exactly one update and then exactly one print follow it (a resize may   *)
(* come between the batch and the update).  When the loop returns in the   *)
(* iteration, no print follows the batch, and an update does exactly when  *)
(* it is the update's event that ends the loop.                            *)
(***************************************************************************)
C18_Batch ==
    /\ [](LET calls  == widget.calls
              n      == Len(calls)
              ops(o) == {i \in 1..n : calls[i].op = o}
          IN  ops("input") /= {} =>
                  /\ \A i \in ops("input") : \A j \in 1..(i - 1) :
                         calls[j].op \in {"input", "timeout"}
                  /\ ui.pc = "poll" /\ ~ui.has_input =>
                         /\ calls[n].op = "print" /\ calls[n - 1].op = "update"
                         /\ Cardinality(ops("update")) = 1
                         /\ Cardinality(ops("print")) = 1
                  /\ ui.pc = "done" /\ calls[n].op /= "print" =>
                         /\ ops("print") = {}
                         /\ IF last.op = "update"
                            THEN calls[n].op = "update" /\ Cardinality(ops("update")) = 1
                            ELSE calls[n].op = "input" /\ ops("update") = {})
    /\ [][(/\ widget'.calls /= widget.calls
            /\ widget'.calls[Len(widget'.calls)].op = "input")
           => /\ widget'.calls[Len(widget'.calls)].e = last'.e
              /\ ui.has_input =>
                     /\ widget.calls[Len(widget.calls)].op = "input"
                     /\ widget'.calls = Append(widget.calls, [op |-> "input", e |-> last'.e])]_vars

\* The loop waits again after a batch of two events, a mouse click and then
\* a key, was delivered in that order and followed by update and print.
C18_Witness ==
    /\ ui.pc = "poll"
    /\ ~ui.has_input
    /\ Len(widget.calls) = 4
    /\ widget.calls[1] = [op |-> "input", e |-> MouseDownLeft(0, 0)]
    /\ widget.calls[2] = [op |-> "input", e |-> KeyEvent("c", "NONE")]
    /\ widget.calls[3].op = "update"
    /\ widget.calls[4].op = "print"


(***************************************************************************)
(* C19: the loop returns by the kill path exactly when Ctrl+C is read,     *)
(* whatever the root has done before; that step makes no call on the root, *)
(* so Ctrl+C is never passed to input; and once the loop has returned      *)
(* nothing more is delivered: no input, no update, no print.               *)
(***************************************************************************)
C19_HardCancel ==
    /\ [](\A i \in DOMAIN widget.calls :
              widget.calls[i].op = "input" => widget.calls[i].e /= KeyEvent("c", "CONTROL"))
    /\ [][last'.op = "kill" /\ last.op /= "kill"
              => /\ last'.e = KeyEvent("c", "CONTROL")
                 /\ ui.pc = "poll"
                 /\ ui'.pc = "done"
                 /\ widget' = widget]_vars
    /\ [][ui.pc = "done" => widget' = widget /\ ui' = ui]_vars

\* Ctrl+C was read in the middle of a batch, after another event of it had
\* been delivered: the loop has returned and the last call is that input.
C19_Witness ==
    /\ ui.pc = "done"
    /\ last.op = "kill"
    /\ ui.has_input
    /\ widget.calls /= <<>>
    /\ widget.calls[Len(widget.calls)].op = "input"


(***************************************************************************)
(* C20 as claimed: after a resize of the root made from inside the loop    *)
(* the wait starts over: the next entry in the record of the iteration is  *)
(* a poll that times out or an input, not an update and not a print.       *)
(***************************************************************************)
C20_ResizeAsClaimed ==
    \A i \in 2..(Len(widget.calls) - 1) :
        widget.calls[i].op = "resize" => widget.calls[i + 1].op \in {"timeout", "input"}

(***************************************************************************)
(* C20: at the size check that ends a pass of the wait, a size that        *)
(* differs from last_size makes the loop call resize on the root, record   *)
(* the size and leave the wait with retry untouched; the root's update is  *)
(* the next call, before any poll.  With the size unchanged no resize is   *)
(* called and retry is decremented.                                        *)
(***************************************************************************)
C20_Resize ==
    /\ [](/\ \A i \in 2..(Len(widget.calls) - 1) :
                 widget.calls[i].op = "resize" => widget.calls[i + 1].op = "update"
          /\ (Len(widget.calls) >= 2 /\ widget.calls[Len(widget.calls)].op = "resize")
                 => ui.pc = "tick")
    /\ [][(ui.pc = "poll" /\ (ui'.pc = "tick" \/ ui'.retry /= ui.retry))
           => IF term.size /= ui.last_size
              THEN /\ widget'.calls[Len(widget'.calls)].op = "resize"
                   /\ Len(widget'.calls) >= 2
                   /\ ui'.last_size = term.size
                   /\ ui'.retry = ui.retry
                   /\ ui'.pc = "tick"
              ELSE /\ widget'.calls[Len(widget'.calls)].op /= "resize"
                   /\ ui'.last_size = ui.last_size
                   /\ ui'.retry = ui.retry - 1]_vars

\* The terminal was resized while the loop waited: after two polls that
\* timed out the root was resized, then updated and printed.
C20_Witness ==
    /\ ui.pc = "poll"
    /\ Len(widget.calls) = 5
    /\ widget.calls[1].op = "timeout"
    /\ widget.calls[2].op = "timeout"
    /\ widget.calls[3].op = "resize"
    /\ widget.calls[4].op = "update"
    /\ widget.calls[5].op = "print"


(***************************************************************************)
(* C21: for a rectangle at (x, y) with positive size (w, h), left is x,    *)
(* top is y, right is x + w - 1, bottom is y + h - 1 and bottom_right is   *)
(* (right, bottom); contains(p) is true exactly when p.x is in x..x+w-1    *)
(* and p.y in y..y+h-1, so both corners are contained and the cells one    *)
(* step right of and one step below the bottom-right corner are not.       *)
(***************************************************************************)
C21_RectSides ==
    (last.op = "sides" /\ last.e.size.x > 0 /\ last.e.size.y > 0) =>
        LET x == last.e.pos.x
            y == last.e.pos.y
            w == last.e.size.x
            h == last.e.size.y
            p == last.p
        IN  /\ last.left = x
            /\ last.top = y
            /\ last.right = x + w - 1
            /\ last.bottom = y + h - 1
            /\ last.bottom_right = [x |-> x + w - 1, y |-> y + h - 1]
            /\ last.contains = /\ x <= p.x /\ p.x <= x + w - 1
                                /\ y <= p.y /\ p.y <= y + h - 1
            /\ p = [x |-> x, y |-> y] => last.contains
            /\ p = [x |-> x + w - 1, y |-> y + h - 1] => last.contains
            /\ p = [x |-> x + w, y |-> y + h - 1] => ~last.contains
            /\ p = [x |-> x + w - 1, y |-> y + h] => ~last.contains

\* The point is the bottom-right corner of a rectangle wider and taller than
\* one cell, and contains reported it inside.
C21_Witness ==
    /\ last.op = "sides"
    /\ last.e.size.x > 1
    /\ last.e.size.y > 1
    /\ last.p = [x |-> last.e.pos.x + last.e.size.x - 1,
                 y |-> last.e.pos.y + last.e.size.y - 1]
    /\ last.contains

(***************************************************************************)
(* C22 as claimed: when the actor's cell A and the target cell A+d (inside *)
(* the grid) have different backgrounds, both black or white, and the      *)
(* target's glyph is '@', then after walk(d) the target cell holds the     *)
(* glyph '@', the glyph of the source cell A is cleared and the actor is   *)
(* at A+d; in every other configuration with different backgrounds the     *)
(* actor and every cell are unchanged.                                     *)
(***************************************************************************)
C22_SwapAsClaimed ==
    last.op = "input" /\ IsMoveKey(last.e) =>
        LET b  == last.before
            T  == V2_add(b.pos, KeyDir(last.e))
            hc == Level_index(b.level, b.pos)
            tc == Level_index(b.level, T)
        IN  /\ T.x >= 0 /\ T.x < b.level.width /\ T.y >= 0 /\ T.y < b.level.height
            /\ hc.background /= tc.background
            => IF /\ hc.background \in {"Black", "White"}
                  /\ tc.background \in {"Black", "White"}
                  /\ tc.letter = "@"
               THEN /\ runner.pos = T
                    /\ Level_index(runner.level, T).letter = "@"
                    /\ Level_index(runner.level, b.pos).letter \in {NUL, " "}
               ELSE runner.pos = b.pos /\ runner.level = b.level

(***************************************************************************)
(* C22 as amended: in the swap configuration, after walk(d) the actor is   *)
(* at A+d, the source cell A holds the glyph '@' and the target cell A+d   *)
(* holds a space; the colours of both cells and every other cell are       *)
(* unchanged.  In every other configuration with different backgrounds     *)
(* the actor and every cell are unchanged.                                 *)
(***************************************************************************)
C22_Swap ==
    last.op = "input" /\ IsMoveKey(last.e) =>
        LET b  == last.before
            T  == V2_add(b.pos, KeyDir(last.e))
            hc == Level_index(b.level, b.pos)
            tc == Level_index(b.level, T)
        IN  /\ T.x >= 0 /\ T.x < b.level.width /\ T.y >= 0 /\ T.y < b.level.height
            /\ hc.background /= tc.background
            => IF /\ hc.background \in {"Black", "White"}
                  /\ tc.background \in {"Black", "White"}
                  /\ tc.letter = "@"
               THEN /\ runner.pos = T
                    /\ runner.level =
                           [b.level EXCEPT
                               !.data[b.pos.y + 1][b.pos.x + 1].letter = "@",
                               !.data[T.y + 1][T.x + 1].letter = " "]
               ELSE runner.pos = b.pos /\ runner.level = b.level

\* The actor on an empty black cell has walked right onto the '@' of a white
\* cell: the '@' is now on the cell the actor left.
C22_Witness ==
    /\ last.op = "input" /\ last.e.code = "d"
    /\ last.before.pos = V2_make(0, 0)
    /\ Level_index(last.before.level, V2_make(0, 0)) = EMPTY_CELL
    /\ Level_index(last.before.level, V2_make(1, 0)) =
           [letter |-> "@", background |-> "White", foreground |-> "Black"]
    /\ runner.pos = V2_make(1, 0)
    /\ Level_index(runner.level, V2_make(0, 0)).letter = "@"
    /\ Level_index(runner.level, V2_make(1, 0)).letter = " "

(***************************************************************************)
(* C23: in a run of the loop over the sequencer's Level Runner, once an    *)
(* input event has moved the actor onto a trigger with identifier exit0,   *)
(* exit1 or exit2, no further input event moves the actor: the simulation  *)
(* bubbles Ok or Result (from update) before the actor moves again, also   *)
(* when the next movement key arrives in the same input batch.             *)
(***************************************************************************)
C23_TriggerBeforeNextMove ==
    [][(/\ last.op = "input"
        /\ MultiLevelRunner_running(last.before)
        /\ MultiLevelRunner_running(mlr)
        /\ last.before.level_runner.pos /= mlr.level_runner.pos
        /\ \E i \in 1..Len(mlr.level_runner.level.triggers) :
               /\ mlr.level_runner.level.triggers[i].pos = mlr.level_runner.pos
               /\ mlr.level_runner.level.triggers[i].id \in {"exit0", "exit1", "exit2"}
        /\ last'.op = "input")
       => mlr'.level_runner.pos = mlr.level_runner.pos]_vars

(***************************************************************************)
(* C24: with the actor inside the grid when the session starts, the actor  *)
(* is inside the grid after any sequence of walks and restarts; and a walk *)
(* whose target cell is outside the grid changes neither the actor's       *)
(* position nor any cell.                                                  *)
(***************************************************************************)
C24_ActorContained ==
    /\ runner.pos.x >= 0 /\ runner.pos.x < runner.level.width
    /\ runner.pos.y >= 0 /\ runner.pos.y < runner.level.height
    /\ last.op = "input" /\ IsMoveKey(last.e) =>
           LET b == last.before
               T == V2_add(b.pos, KeyDir(last.e))
           IN  ~(T.x >= 0 /\ T.x < b.level.width /\ T.y >= 0 /\ T.y < b.level.height)
               => runner.pos = b.pos /\ runner.level = b.level

\* After a push that changed the grid, the actor on the first cell of the
\* strip has walked towards the edge and stayed.
C24_Witness ==
    /\ last.op = "input" /\ last.e.code = "a"
    /\ last.before.pos = V2_make(0, 0)
    /\ runner.pos = V2_make(0, 0)
    /\ runner.level /= runner.backup_level

(***************************************************************************)
(* C25: when the target cell A+d has the background of the actor's cell A  *)
(* and a non-empty glyph with a black or white foreground, and the cell    *)
(* A+2d is inside the grid, has a background different from the target's   *)
(* and holds the same glyph, then after walk(d) the glyphs of A+d and A+2d *)
(* are cleared, the actor is at A+d and all colours (and all other cells)  *)
(* are unchanged.                                                          *)
(***************************************************************************)
C25_MergeCancel ==
    last.op = "input" /\ IsMoveKey(last.e) =>
        LET b  == last.before
            T  == V2_add(b.pos, KeyDir(last.e))
            N  == V2_add(T, KeyDir(last.e))
            hc == Level_index(b.level, b.pos)
            tc == Level_index(b.level, T)
            nc == Level_index(b.level, N)
        IN  /\ tc.background = hc.background
            /\ tc.letter \notin {NUL, " "}
            /\ tc.foreground \in {"Black", "White"}
            /\ N.x >= 0 /\ N.x < b.level.width /\ N.y >= 0 /\ N.y < b.level.height
            /\ nc.background /= tc.background
            /\ nc.letter = tc.letter
            => /\ runner.pos = T
               /\ runner.level =
                      [b.level EXCEPT !.data[T.y + 1][T.x + 1].letter = " ",
                                      !.data[N.y + 1][N.x + 1].letter = " "]

\* The actor on a black cell has walked down against an 'a' on black with an
\* 'a' on white behind it: both glyphs are gone.
C25_Witness ==
    /\ last.op = "input" /\ last.e.code = "s"
    /\ last.before.pos = V2_make(0, 0)
    /\ Level_index(last.before.level, V2_make(0, 0)).background = "Black"
    /\ Level_index(last.before.level, V2_make(0, 1)) =
           [letter |-> "a", background |-> "Black", foreground |-> "White"]
    /\ Level_index(last.before.level, V2_make(0, 2)) =
           [letter |-> "a", background |-> "White", foreground |-> "Black"]
    /\ runner.pos = V2_make(0, 1)
    /\ Level_index(runner.level, V2_make(0, 1)).letter = " "
    /\ Level_index(runner.level, V2_make(0, 2)).letter = " "

(***************************************************************************)
(* C26 as claimed: when the target cell A+d holds a non-empty glyph with a *)
(* black or white foreground and the cell A+2d is neither (of the target's *)
(* background and empty) nor (of another background with the target's      *)
(* glyph), walk(d) leaves the actor's position and every cell unchanged;   *)
(* and a walk changes at most two cells, among A, A+d and A+2d.            *)
(***************************************************************************)
C26_PushFailsAsClaimed ==
    last.op = "input" /\ IsMoveKey(last.e) =>
        LET b  == last.before
            T  == V2_add(b.pos, KeyDir(last.e))
            N  == V2_add(T, KeyDir(last.e))
            tc == Level_index(b.level, T)
            nc == Level_index(b.level, N)
            changed == {p \in StripCells(<<b.level.width, b.level.height>>) :
                           Level_index(runner.level, p) /= Level_index(b.level, p)}
        IN  /\ (/\ tc.letter \notin {NUL, " "}
                /\ tc.foreground \in {"Black", "White"}
                /\ ~(nc.background = tc.background /\ nc.letter \in {NUL, " "})
                /\ ~(nc.background /= tc.background /\ nc.letter = tc.letter))
               => runner.pos = b.pos /\ runner.level = b.level
            /\ Cardinality(changed) <= 2
            /\ changed \subseteq {b.pos, T, N}

(***************************************************************************)
(* C26 as amended: the same, except when the swap rule applies, that is    *)
(* when the cells at A and A+d have different backgrounds, both black or   *)
(* white, and the glyph at A+d is '@'.                                     *)
(***************************************************************************)
C26_PushFails ==
    last.op = "input" /\ IsMoveKey(last.e) =>
        LET b  == last.before
            T  == V2_add(b.pos, KeyDir(last.e))
            N  == V2_add(T, KeyDir(last.e))
            hc == Level_index(b.level, b.pos)
            tc == Level_index(b.level, T)
            nc == Level_index(b.level, N)
            changed == {p \in StripCells(<<b.level.width, b.level.height>>) :
                           Level_index(runner.level, p) /= Level_index(b.level, p)}
        IN  /\ (/\ tc.letter \notin {NUL, " "}
                /\ tc.foreground \in {"Black", "White"}
                /\ ~(nc.background = tc.background /\ nc.letter \in {NUL, " "})
                /\ ~(nc.background /= tc.background /\ nc.letter = tc.letter)
                /\ ~(/\ hc.background /= tc.background
                     /\ hc.background \in {"Black", "White"}
                     /\ tc.background \in {"Black", "White"}
                     /\ tc.letter = "@"))
               => runner.pos = b.pos /\ runner.level = b.level
            /\ Cardinality(changed) <= 2
            /\ changed \subseteq {b.pos, T, N}

\* The actor has walked right against a box with a second box behind it, all
\* on black: nothing moved.
C26_Witness ==
    /\ last.op = "input" /\ last.e.code = "Right"
    /\ last.before.pos = V2_make(0, 0)
    /\ Level_index(last.before.level, V2_make(0, 0)).background = "Black"
    /\ Level_index(last.before.level, V2_make(1, 0)) =
           [letter |-> "a", background |-> "Black", foreground |-> "White"]
    /\ Level_index(last.before.level, V2_make(2, 0)) =
           [letter |-> "a", background |-> "Black", foreground |-> "White"]
    /\ runner.pos = V2_make(0, 0)
    /\ runner.level = last.before.level

(***************************************************************************)
(* C27: after the session has started on a level, for every sequence of    *)
(* walks (pushes, cancels and swaps included) followed by restart, the     *)
(* runner's grid equals the grid it was started on, which is still its     *)
(* snapshot, and the actor is at that grid's start point; a restart of a   *)
(* runner that is in that state changes nothing.                           *)
(***************************************************************************)
C27_RestartRoundTrip ==
    last.op = "input" /\ last.e = KeyEvent("r", "NONE") =>
        /\ runner.level = level
        /\ runner.backup_level = level
        /\ runner.pos = level.p0
        /\ (/\ last.before.level = level
            /\ last.before.backup_level = level
            /\ last.before.pos = level.p0) => runner = last.before

\* A restart after walks that changed the grid and moved the actor.
C27_Witness ==
    /\ last.op = "input" /\ last.e = KeyEvent("r", "NONE")
    /\ last.before.level /= level
    /\ last.before.pos /= level.p0
    /\ runner.level = level
    /\ runner.pos = level.p0

(***************************************************************************)
(* C28: keep_cursor_in_view returns true exactly when it changed           *)
(* view_corner: on a level without triggers, where update returns what the *)
(* follow step decides, update bubbles Changed if and only if view_corner  *)
(* after the tick differs from view_corner before it.                      *)
(***************************************************************************)
C28_MovedIffChanged ==
    last.op = "update" /\ last.before.level.triggers = <<>> =>
        ((last.ret.some /\ last.ret.kind = "Changed")
            <=> runner.view_corner /= last.before.view_corner)

(***************************************************************************)
(* C29: a render pass clears the dirty flag it acted on: in the editor's   *)
(* run loop, right after a render pass (the loop is back at the start of   *)
(* its wait, no event read yet), a further render pass would repaint       *)
(* nothing.                                                                *)
(***************************************************************************)
C29_RenderClearsDirty ==
    (ui.pc = "poll" /\ ~ui.has_input /\ ui.retry = POLL_RETRIES)
        => ~LevelEditor_print(editor).repaints

(***************************************************************************)
(* C30: the editor starts in View.  From View, WriteText, Paint and        *)
(* SetMarkers, F2 leads to View, F3 to WriteText with the cursor's column  *)
(* recorded as the wrap column, F5 to Paint, F6 to SetMarkers and F8 to    *)
(* Play; Escape in WriteText, Paint or SetMarkers leads to View.  In Play  *)
(* no function key changes the mode: input leaves Play only on Escape and  *)
(* update only when the actor stands on an exit trigger, both to View.  In *)
(* ErrorMessage a key event of any kind leads to View and nothing else     *)
(* changes the mode.  Outside Play, update does not change the mode.       *)
(***************************************************************************)
C30_ModeTransitions ==
    /\ last.op = "none" => editor.mode = "View"
    /\ last.op = "input" =>
           LET b == last.before
               k(code) == last.e = KeyEvent(code, "NONE")
           IN  /\ b.mode \in {"View", "WriteText", "Paint", "SetMarkers"} =>
                      /\ k("F2") => editor.mode = "View"
                      /\ k("F3") => /\ editor.mode = "WriteText"
                                    /\ editor.wrap_pos.x = b.cursor_pos.x
                      /\ k("F5") => editor.mode = "Paint"
                      /\ k("F6") => editor.mode = "SetMarkers"
                      /\ k("F8") => editor.mode = "Play"
               /\ (b.mode \in {"WriteText", "Paint", "SetMarkers"} /\ k("Esc"))
                      => editor.mode = "View"
               /\ b.mode = "Play" =>
                      IF k("Esc") THEN editor.mode = "View" ELSE editor.mode = "Play"
               /\ b.mode = "ErrorMessage" =>
                      IF last.e.type = "Key" THEN editor.mode = "View"
                      ELSE editor.mode = "ErrorMessage"
    /\ last.op = "update" =>
           LET b == last.before
               t == b.test_runer.level.triggers
           IN  IF /\ b.mode = "Play"
                  /\ \E i \in 1..Len(t) : /\ t[i].pos = b.test_runer.pos
                                          /\ t[i].id \in {"exit0", "exit1", "exit2"}
                                          /\ \A j \in 1..(i - 1) : t[j].pos /= t[i].pos
               THEN editor.mode = "View"
               ELSE editor.mode = b.mode

\* F3 pressed in Paint mode with the cursor moved off the first column (by a
\* click): the editor is in WriteText and wraps at the cursor's column.
C30_Witness ==
    /\ last.op = "input"
    /\ last.e = KeyEvent("F3", "NONE")
    /\ last.before.mode = "Paint"
    /\ last.before.cursor_pos.x = 3
    /\ last.before.wrap_pos.x = 0
    /\ editor.mode = "WriteText"
    /\ editor.wrap_pos.x = 3

(***************************************************************************)
(* C31: in WriteText mode no input event changes the foreground or the     *)
(* background of any cell; a printable key changes only the glyph of the   *)
(* cell under the cursor and advances the cursor one column; Backspace     *)
(* moves the cursor one column left and clears only the glyph of the cell  *)
(* it arrives on; Enter sets the cursor column to the wrap column and      *)
(* advances one row without changing any cell.  The wrap column is the one *)
(* recorded on entering text mode or by the latest F4 since.               *)
(***************************************************************************)
C31_TextEntry ==
    (last.op = "input" /\ last.before.mode = "WriteText") =>
        LET b  == last.before
            e  == last.e
            lb == b.level
            la == editor.level
            at(l, p) == l.data[p.y + 1][p.x + 1]
            cells == {V2_make(x, y) : <<x, y>> \in (0..(lb.width - 1)) \X (0..(lb.height - 1))}
            left == V2_make(b.cursor_pos.x - 1, b.cursor_pos.y)
        IN  /\ la.width = lb.width /\ la.height = lb.height
            /\ \A p \in cells :
                   /\ at(la, p).foreground = at(lb, p).foreground
                   /\ at(la, p).background = at(lb, p).background
            /\ e \in {KeyEvent("b", "NONE"), KeyEvent("B", "SHIFT"), KeyEvent("x", "NONE"),
                      KeyEvent("m", "NONE"), KeyEvent("0", "NONE")} =>
                   /\ editor.cursor_pos = V2_make(b.cursor_pos.x + 1, b.cursor_pos.y)
                   /\ \A p \in cells :
                          at(la, p).letter =
                              IF p = b.cursor_pos THEN e.code ELSE at(lb, p).letter
            /\ e = KeyEvent("Backspace", "NONE") =>
                   /\ editor.cursor_pos = left
                   /\ \A p \in cells :
                          at(la, p).letter = IF p = left THEN NUL ELSE at(lb, p).letter
            /\ e = KeyEvent("Enter", "NONE") =>
                   /\ editor.cursor_pos = V2_make(b.wrap_pos.x, b.cursor_pos.y + 1)
                   /\ la = lb

\* The claim as worded: the column Enter returns to is the one recorded on
\* entering text mode, so it does not change while the editor stays in text
\* mode without entering it again (F3).
C31_WrapColumnAsClaimed ==
    [][(/\ editor.mode = "WriteText"
        /\ editor'.mode = "WriteText"
        /\ last'.op = "input"
        /\ last'.e /= KeyEvent("F3", "NONE"))
       => editor'.wrap_pos.x = editor.wrap_pos.x]_vars

C31_Witness ==
    /\ last.op = "input"
    /\ last.before.mode = "WriteText"
    /\ last.e = KeyEvent("Enter", "NONE")
    /\ last.before.cursor_pos.x /= last.before.wrap_pos.x
    /\ editor.cursor_pos.x = last.before.wrap_pos.x
    /\ \E y \in 1..last.before.level.height, x \in 1..last.before.level.width :
           last.before.level.data[y][x].background = "DarkGray"

(***************************************************************************)
(* C32: in SetMarkers mode, after x, c or v the level has exactly one      *)
(* trigger at the cursor position, carrying exit1, exit2 or exit0; after   *)
(* Backspace it has none there; in all four cases the triggers at other    *)
(* positions are unchanged, in their order.  Every editor operation on a   *)
(* level with at most one trigger per position leaves at most one trigger  *)
(* per position.                                                           *)
(***************************************************************************)
C32_MarkersUnique ==
    LET tb == last.before.level.triggers
        ta == editor.level.triggers
        cur == last.before.cursor_pos
        here(t) == {i \in 1..Len(t) : t[i].pos = cur}
        elsewhere(t) == SelectSeq(t, LAMBDA g : g.pos /= cur)
        unique(t) == \A i, j \in 1..Len(t) : t[i].pos = t[j].pos => i = j
        tag == [x |-> "exit1", c |-> "exit2", v |-> "exit0"]
    IN  /\ (last.op = "input" /\ last.before.mode = "SetMarkers") =>
               /\ \A k \in {"x", "c", "v"} :
                      last.e = KeyEvent(k, "NONE") =>
                          /\ Cardinality(here(ta)) = 1
                          /\ \A i \in here(ta) : ta[i].id = tag[k]
                          /\ elsewhere(ta) = elsewhere(tb)
               /\ last.e = KeyEvent("Backspace", "NONE") =>
                      /\ here(ta) = {}
                      /\ elsewhere(ta) = elsewhere(tb)
        /\ (last.op \in {"input", "update"} /\ unique(tb)) => unique(ta)

C32_Witness ==
    /\ last.op = "input"
    /\ last.before.mode = "SetMarkers"
    /\ last.e = KeyEvent("c", "NONE")
    /\ Len(last.before.level.triggers) = 2
    /\ last.before.level.triggers[1].pos = last.before.cursor_pos
    /\ last.before.level.triggers[2].pos = last.before.cursor_pos
    /\ Len(editor.level.triggers) = 1
    /\ editor.level.triggers[1] = Trigger_make(last.before.cursor_pos, "exit2")

(***************************************************************************)
(* C33: after the copy key in View mode, with rec the normalized selection *)
(* and target the cursor: for every position p of rec whose image          *)
(* p - rec.pos + target is inside the grid, the cell at the image equals   *)
(* the cell read at p before the copy, also when rec and the target        *)
(* rectangle overlap; every cell outside the target rectangle is           *)
(* unchanged.                                                              *)
(***************************************************************************)
C33_CopyFromSnapshot ==
    (/\ last.op = "input"
     /\ last.before.mode = "View"
     /\ last.e = KeyEvent("k", "NONE")) =>
        LET lb == last.before.level
            la == editor.level
            rec == Rectangle_normalized(last.before.selection_rect)
            target == last.before.cursor_pos
            inside(p) == p.x >= 0 /\ p.x < lb.width /\ p.y >= 0 /\ p.y < lb.height
            read(p) == IF inside(p) THEN lb.data[p.y + 1][p.x + 1] ELSE EMPTY_CELL
            points == {V2_make(x, y) :
                           <<x, y>> \in (rec.pos.x..(rec.pos.x + rec.size.x - 1))
                                        \X (rec.pos.y..(rec.pos.y + rec.size.y - 1))}
            image(p) == V2_make(p.x - rec.pos.x + target.x, p.y - rec.pos.y + target.y)
            cells == {V2_make(x, y) : <<x, y>> \in (0..(lb.width - 1)) \X (0..(lb.height - 1))}
        IN  /\ la.width = lb.width /\ la.height = lb.height
            /\ \A p \in points :
                   inside(image(p)) => la.data[image(p).y + 1][image(p).x + 1] = read(p)
            /\ \A q \in cells :
                   q \notin {image(p) : p \in points} =>
                       la.data[q.y + 1][q.x + 1] = lb.data[q.y + 1][q.x + 1]

\* A copy one cell to the right of a selection two cells wide, which changes
\* both cells of the target rectangle: the second gets what the first held
\* before the copy.
C33_Witness ==
    /\ last.op = "input"
    /\ last.before.mode = "View"
    /\ last.e = KeyEvent("k", "NONE")
    /\ last.before.selection_rect = Rectangle_make(V2_make(0, 0), V2_make(2, 1))
    /\ last.before.cursor_pos = V2_make(1, 0)
    /\ last.before.level.width = 3
    /\ last.before.level.data[1][1] /= last.before.level.data[1][2]
    /\ last.before.level.data[1][2] = last.before.level.data[1][3]
    /\ editor.level.data[1][2] = last.before.level.data[1][1]
    /\ editor.level.data[1][3] = last.before.level.data[1][2]

(***************************************************************************)
(* C38: after every editor operation, the Shift+R resize included, the     *)
(* level's data has exactly height rows of exactly width cells; a resize   *)
(* with the cursor's x or y below 5 leaves the level unchanged; a resize   *)
(* that takes place makes the level cursor.x wide and cursor.y high and    *)
(* keeps the content of every cell inside both the old and the new bounds. *)
(***************************************************************************)
C38_GridShape ==
    /\ Len(editor.level.data) = editor.level.height
    /\ \A y \in 1..Len(editor.level.data) : Len(editor.level.data[y]) = editor.level.width
    /\ (/\ last.op = "input"
        /\ last.before.mode = "View"
        /\ last.e = KeyEvent("R", "SHIFT")) =>
           LET lb == last.before.level
               la == editor.level
               cur == last.before.cursor_pos
           IN  IF cur.x < 5 \/ cur.y < 5
               THEN la = lb
               ELSE /\ la.width = cur.x
                    /\ la.height = cur.y
                    /\ \A y \in 1..la.height, x \in 1..la.width :
                           (y <= lb.height /\ x <= lb.width) =>
                               la.data[y][x] = lb.data[y][x]

\* A 6 x 6 level cut to 5 columns and grown to 7 rows.
C38_Witness ==
    /\ last.op = "input"
    /\ last.before.mode = "View"
    /\ last.e = KeyEvent("R", "SHIFT")
    /\ last.before.level.width = 6
    /\ last.before.level.height = 6
    /\ editor.level.width = 5
    /\ editor.level.height = 7
    /\ editor.level.data[5][5] = last.before.level.data[5][5]
    /\ editor.level.data[5][5].letter = "a"
    /\ editor.level.data[7][5] = EMPTY_CELL

(***************************************************************************)
(* C39: in View mode while a selection is in progress, after update() the  *)
(* normalized selection rectangle covers exactly the positions between the *)
(* anchor (the position of selection_rect, where the selection began) and  *)
(* the cursor, both included, wherever the cursor is relative to the       *)
(* anchor.                                                                 *)
(***************************************************************************)
C39_LiveSelection ==
    (/\ last.op = "update"
     /\ last.before.mode = "View"
     /\ last.before.selecting_rect) =>
        LET anchor == last.before.selection_rect.pos
            cur == last.before.cursor_pos
            min(a, b) == IF a < b THEN a ELSE b
            max(a, b) == IF a < b THEN b ELSE a
            n == Rectangle_normalized(editor.selection_rect)
        IN  /\ editor.selecting_rect
            /\ editor.cursor_pos = cur
            /\ editor.selection_rect.pos = anchor
            /\ n.pos = V2_make(min(anchor.x, cur.x), min(anchor.y, cur.y))
            /\ n.size = V2_make(max(anchor.x, cur.x) - min(anchor.x, cur.x) + 1,
                                max(anchor.y, cur.y) - min(anchor.y, cur.y) + 1)

\* The cursor left of and below the anchor, the selection still at the size
\* it had when it began.
C39_Witness ==
    /\ last.op = "update"
    /\ last.before.mode = "View"
    /\ last.before.selecting_rect
    /\ last.before.selection_rect = Rectangle_make(V2_make(1, 1), V2_make(1, 1))
    /\ last.before.cursor_pos = V2_make(-1, 3)
    /\ editor.selection_rect.size = V2_make(-1, 3)

(***************************************************************************)
(* C40: when a selection in progress is committed in View mode (m, Enter   *)
(* or Escape), the rectangle stored spans the anchor and the cursor        *)
(* position of that moment, also when the cursor moved since the last      *)
(* update(), i.e. when the moves and the commit key are read in one batch. *)
(***************************************************************************)
C40_CommitSpansCursor ==
    (/\ last.op = "input"
     /\ last.before.mode = "View"
     /\ last.before.selecting_rect
     /\ last.e \in {KeyEvent("m", "NONE"), KeyEvent("Enter", "NONE"), KeyEvent("Esc", "NONE")}) =>
        LET anchor == last.before.selection_rect.pos
            cur == last.before.cursor_pos
            min(a, b) == IF a < b THEN a ELSE b
            max(a, b) == IF a < b THEN b ELSE a
        IN  /\ ~editor.selecting_rect
            /\ editor.selection_rect.pos = V2_make(min(anchor.x, cur.x), min(anchor.y, cur.y))
            /\ editor.selection_rect.size =
                   V2_make(max(anchor.x, cur.x) - min(anchor.x, cur.x) + 1,
                           max(anchor.y, cur.y) - min(anchor.y, cur.y) + 1)

(***************************************************************************)
(* C34: when the sequencer tries to load the level at the current index    *)
(* (in play_levels, or after a terminal event of its runner moved the      *)
(* index on) and the file is absent or does not parse, then afterwards its *)
(* message is not empty (after update, the print of the same pass of the   *)
(* loop has shown it and cleared it), current_level is the length of the   *)
(* list, the runner's level is the one it had, and the call returns        *)
(* normally: the loop goes on, input or update returning Changed.          *)
(***************************************************************************)
C34_LoadFailure ==
    [][LET files == mlr.levels.files
           fails(i) ==
               /\ i <= Len(files)
               /\ \/ files[i] \notin DOMAIN term.files
                  \/ term.files[files[i]].kind /= "level"
           first == ui.pc = "main" /\ ui'.pc /= "main" /\ fails(mlr.current_level + 1)
           later == /\ last'.op \in {"input", "update"}
                    /\ mlr'.current_level /= mlr.current_level
                    /\ fails(mlr.current_level + 2)
       IN  /\ (first \/ later) =>
                  /\ \/ mlr'.message /= ""
                     \/ last'.op = "update" /\ mlr'.can_exit = 1 /\ term'.message /= ""
                  /\ mlr'.current_level = Len(files)
                  /\ mlr'.level_runner.level = mlr.level_runner.level
                  /\ ui'.pc \in {"start", "poll"}
           /\ later => last'.ret = [some |-> TRUE, id |-> mlr.id, kind |-> "Changed",
                                   value |-> ""]]_vars

\* The first level is left through its trigger and the second file does not
\* parse.
C34_Witness ==
    /\ last.op = "update"
    /\ Len(mlr.levels.files) = 2
    /\ term.files[mlr.levels.files[2]].kind = "malformed"
    /\ last.before.current_level = 0
    /\ mlr.current_level = 2
    /\ term.message = "Failed to load level 'levels/l2'"
    /\ mlr.level_runner.level = last.before.level_runner.level
    /\ ui.pc = "poll"

(***************************************************************************)
(* C35: while the sequencer is running (current_level < number of levels)  *)
(* its input and update return nothing or a Changed event with the         *)
(* sequencer's id, never Ok, Canceled or Result, also when its runner      *)
(* returned a terminal event; so the loop rooted at the sequencer ends     *)
(* while it is running only by the kill combination.                       *)
(***************************************************************************)
C35_NoExitWhileRunning ==
    (/\ last.op \in {"input", "update", "kill"}
     /\ last.before.current_level < Len(last.before.levels.files)) =>
        /\ last.op /= "kill" =>
               /\ last.ret.some => last.ret.kind = "Changed" /\ last.ret.id = mlr.id
               /\ ui.pc /= "done"
        /\ (last.op = "update"
            /\ LevelRunner_update(last.before.level_runner, term.size).ret.kind
                   \in {"Ok", "Canceled", "Result"}) =>
               last.ret = [some |-> TRUE, id |-> mlr.id, kind |-> "Changed", value |-> ""]

C35_Witness ==
    /\ last.op = "update"
    /\ last.before.current_level = 0
    /\ Len(mlr.levels.files) = 2
    /\ LevelRunner_update(last.before.level_runner, term.size).ret.kind = "Result"
    /\ last.ret.kind = "Changed"
    /\ mlr.current_level = 1
    /\ ui.pc = "poll"

(***************************************************************************)
(* C37: in every reachable state 0 <= current_level <= number of levels;   *)
(* current_level never decreases; and it changes only when the runner      *)
(* returned a terminal event (Ok, Canceled, Result) tagged with the        *)
(* runner's id, or when a load failed.                                     *)
(***************************************************************************)
C37_IndexBounds ==
    /\ [](mlr.current_level >= 0 /\ mlr.current_level <= Len(mlr.levels.files))
    /\ [][/\ mlr'.current_level >= mlr.current_level
          /\ mlr'.current_level /= mlr.current_level =>
                 LET files == mlr.levels.files
                     fails(i) ==
                         /\ i <= Len(files)
                         /\ \/ files[i] \notin DOMAIN term.files
                            \/ term.files[files[i]].kind /= "level"
                     terminal(ev) ==
                         /\ ev.some
                         /\ ev.kind \in {"Ok", "Canceled", "Result"}
                         /\ ev.id = mlr.level_runner.id
                 IN  \/ ui.pc = "main" /\ fails(mlr.current_level + 1)
                     \/ /\ last'.op = "input"
                        /\ terminal(LevelRunner_input(mlr.level_runner, last'.e,
                                                      term.size).ret)
                     \/ /\ last'.op = "update"
                        /\ terminal(LevelRunner_update(mlr.level_runner, term.size).ret)]_vars

C37_Witness ==
    /\ last.op = "update"
    /\ Len(mlr.levels.files) = 2
    /\ last.before.current_level = 1
    /\ mlr.current_level = 2
    /\ term.message = "Thank you for playing the game"

(***************************************************************************)
(* C36: a walk changes no cell's foreground or background, nor the level's *)
(* dimensions, start point or triggers; the cells whose glyph it changes   *)
(* are among the target and the cell beyond it, or among the actor's       *)
(* previous cell and the target; and the actor stays or is on the target,  *)
(* one cell further in the direction of the walk.                          *)
(***************************************************************************)
C36_WalkFrame ==
    (last.op = "input" /\ IsMoveKey(last.e)) =>
        LET b  == last.before
            lb == b.level
            la == runner.level
            d  == KeyDir(last.e)
            T  == [x |-> b.pos.x + d.x, y |-> b.pos.y + d.y]
            N  == [x |-> T.x + d.x, y |-> T.y + d.y]
            cells == {V2_make(x, y) : <<x, y>> \in (0..(lb.width - 1)) \X (0..(lb.height - 1))}
            at(l, p) == l.data[p.y + 1][p.x + 1]
            changed == {p \in cells : at(la, p).letter /= at(lb, p).letter}
        IN  /\ la.width = lb.width /\ la.height = lb.height
            /\ la.p0 = lb.p0
            /\ la.triggers = lb.triggers
            /\ Len(la.data) = Len(lb.data)
            /\ \A y \in 1..Len(la.data) : Len(la.data[y]) = Len(lb.data[y])
            /\ \A p \in cells :
                   /\ at(la, p).foreground = at(lb, p).foreground
                   /\ at(la, p).background = at(lb, p).background
            /\ changed \subseteq {T, N} \/ changed \subseteq {b.pos, T}
            /\ runner.pos = b.pos \/ runner.pos = T

\* A push: the glyph of the target and of the cell beyond it change.
C36_Witness ==
    /\ last.op = "input"
    /\ IsMoveKey(last.e)
    /\ runner.pos = V2_add(last.before.pos, KeyDir(last.e))
    /\ LET T == runner.pos
           N == V2_add(T, KeyDir(last.e))
       IN  /\ Level_contains(runner.level, N)
           /\ Level_index(runner.level, T).letter /= Level_index(last.before.level, T).letter
           /\ Level_index(runner.level, N).letter /= Level_index(last.before.level, N).letter
           /\ Level_index(runner.level, N).letter = Level_index(last.before.level, T).letter

=========================================================================
